---------------------------- MODULE Spec2Model ----------------------------
(***************************************************************************)
(* Model of docassemble.privacydocgenerator: the jurisdiction              *)
(* applicability detector (jurisdiction_engine.py) and the gap analysis    *)
(* engine (gap_analysis_engine.py).                                        *)
(*                                                                         *)
(* The code is a set of pure functions.  Each function is an operator      *)
(* computed as the code computes it; the state machine is the interview    *)
(* calling them: a call stores its arguments and its return value.         *)
(*                                                                         *)
(* A Python str is a sequence of tokens whose concatenation is the str:    *)
(* a string literal is one token, a formatted number is the sequence of    *)
(* its characters.  An optional number is a set with at most one element   *)
(* (None is {}).  A checkbox mapping (DADict) is a function from its       *)
(* labels to BOOLEAN.  In string literals the section sign is written      *)
(* "Sec. " and the en dash "-".                                            *)
(***************************************************************************)
EXTENDS Integers, Sequences, FiniteSets

VARIABLES op, hash_seed, profile, results, prev_results,
          matter_arg, findings, analysis

vars == <<op, hash_seed, profile, results, prev_results,
          matter_arg, findings, analysis>>

(***************************************************************************)
(* Bounds of the model.                                                    *)
(***************************************************************************)
\* At most this many region check boxes are ticked in one profile.
MaxTrue == 3

(***************************************************************************)
(* jurisdiction_engine.py: threshold constants.                            *)
(***************************************************************************)
CCPA_REVENUE_THRESHOLD == 25000000

CCPA_CONSUMER_THRESHOLD == 100000

TDPSA_CONSUMER_THRESHOLD == 100000

VCDPA_CONSUMER_THRESHOLD == 100000

VCDPA_REVENUE_SHARE_THRESHOLD == 25000

(***************************************************************************)
(* Python values.                                                          *)
(***************************************************************************)
None == {}

Some(n) == {n}

\* The number held by an optional number that is not None.
value(x) == CHOOSE n \in x : TRUE

\* Python truth value of an optional number: None and 0 are falsy.
truthy(x) == x # None /\ value(x) # 0

\* DADict.true_values(): the labels whose box is ticked.
true_values(m) == {k \in DOMAIN m : m[k]}

\* str.join(sep, texts) on texts that are token sequences.
RECURSIVE join(_, _)
join(sep, texts) ==
    IF texts = <<>> THEN <<>>
    ELSE IF Len(texts) = 1 THEN texts[1]
    ELSE texts[1] \o <<sep>> \o join(sep, Tail(texts))

Digit == <<"0", "1", "2", "3", "4", "5", "6", "7", "8", "9">>

\* The decimal digits of n, without grouping.
RECURSIVE digits(_)
digits(n) ==
    IF n < 10 THEN <<Digit[n + 1]>>
    ELSE digits(n \div 10) \o <<Digit[(n % 10) + 1]>>

\* Three digits, zero padded: a group after the first.
group3(n) ==
    <<Digit[(n \div 100) + 1], Digit[((n \div 10) % 10) + 1], Digit[(n % 10) + 1]>>

\* format(n, ','): the digits of n in groups of three separated by commas.
\* (',.0f' of a whole amount gives the same characters.)
RECURSIVE format_comma(_)
format_comma(n) ==
    IF n < 1000 THEN digits(n)
    ELSE format_comma(n \div 1000) \o <<",">> \o group3(n % 1000)

(***************************************************************************)
(* Iteration order of a set of str.  CPython salts str hashes with a seed  *)
(* drawn when the interpreter process starts, so the order in which a set  *)
(* of two strings is iterated is one of the two orders, fixed for the      *)
(* life of a process and free between processes.                           *)
(***************************************************************************)
EU == "European Union (EU)"

UK == "United Kingdom (UK)"

HashSeeds == {0, 1}

hash_order(seed) == IF seed = 0 THEN <<EU, UK>> ELSE <<UK, EU>>

\* list(S) for S a subset of {EU, UK}, in the interpreter's iteration order.
iterate(S, seed) == SelectSeq(hash_order(seed), LAMBDA r : r \in S)

\* The list of one-token texts of a list of str.
texts_of(strs) == [i \in 1..Len(strs) |-> <<strs[i]>>]

(***************************************************************************)
(* jurisdiction_engine.py: the four detectors.                             *)
(***************************************************************************)
\* Mutant of detect_gdpr: the targeting test is made before the
\* establishment test.
detect_gdpr_targeting_first(operating_regions, consumer_regions, seed) ==
    LET eu_uk == {EU, UK}
        has_establishment == (eu_uk \cap true_values(operating_regions)) # {}
        targets_eu_uk == (eu_uk \cap true_values(consumer_regions)) # {}
    IN  IF targets_eu_uk
        THEN [name |-> "GDPR", applies |-> TRUE,
              reason |-> <<"Client processes personal data of residents in ">>
                  \o join(", ", texts_of(iterate(
                         eu_uk \cap true_values(consumer_regions), seed)))
                  \o <<".">>]
        ELSE IF has_establishment
        THEN [name |-> "GDPR", applies |-> TRUE,
              reason |-> <<"Client has an establishment in ">>
                  \o join(", ", texts_of(iterate(
                         eu_uk \cap true_values(operating_regions), seed)))
                  \o <<".">>]
        ELSE [name |-> "GDPR", applies |-> FALSE,
              reason |-> <<"No EU/UK establishment or consumer base detected.">>]

detect_gdpr(operating_regions, consumer_regions, seed) ==
    LET eu_uk == {EU, UK}
        has_establishment == (eu_uk \cap true_values(operating_regions)) # {}
        targets_eu_uk == (eu_uk \cap true_values(consumer_regions)) # {}
    IN  IF has_establishment
        THEN [name |-> "GDPR", applies |-> TRUE,
              reason |-> <<"Client has an establishment in ">>
                  \o join(", ", texts_of(iterate(
                         eu_uk \cap true_values(operating_regions), seed)))
                  \o <<".">>]
        ELSE IF targets_eu_uk
        THEN [name |-> "GDPR", applies |-> TRUE,
              reason |-> <<"Client processes personal data of residents in ">>
                  \o join(", ", texts_of(iterate(
                         eu_uk \cap true_values(consumer_regions), seed)))
                  \o <<".">>]
        ELSE [name |-> "GDPR", applies |-> FALSE,
              reason |-> <<"No EU/UK establishment or consumer base detected.">>]

\* Mutant of detect_ccpa_cpra: the reason is the first matched criterion
\* only.
detect_ccpa_cpra_first_reason_only(operating_regions, consumer_regions, annual_revenue, consumer_volume, sells_data) ==
    LET operates_in_ca == "California (US)" \in true_values(operating_regions)
        consumers_in_ca == "California (US)" \in true_values(consumer_regions)
        r1 == IF truthy(annual_revenue)
                 /\ value(annual_revenue) >= CCPA_REVENUE_THRESHOLD
              THEN << <<"Annual revenue ($">>
                      \o format_comma(value(annual_revenue))
                      \o <<") meets or exceeds ", "$">>
                      \o format_comma(CCPA_REVENUE_THRESHOLD)
                      \o <<" threshold.">> >>
              ELSE <<>>
        r2 == IF truthy(consumer_volume)
                 /\ value(consumer_volume) >= CCPA_CONSUMER_THRESHOLD
              THEN << <<"Consumer volume (">>
                      \o format_comma(value(consumer_volume))
                      \o <<") meets or exceeds ">>
                      \o format_comma(CCPA_CONSUMER_THRESHOLD)
                      \o <<" threshold.">> >>
              ELSE <<>>
        r3 == IF sells_data
              THEN << <<"Client derives revenue from selling personal information.">> >>
              ELSE <<>>
        reasons == r1 \o r2 \o r3
    IN  IF ~(operates_in_ca \/ consumers_in_ca)
        THEN [name |-> "CCPA/CPRA", applies |-> FALSE,
              reason |-> <<"No California operations or consumer base detected.">>]
        ELSE IF reasons # <<>>
        THEN [name |-> "CCPA/CPRA", applies |-> TRUE,
              reason |-> reasons[1]]
        ELSE [name |-> "CCPA/CPRA", applies |-> FALSE,
              reason |-> <<"Client operates in California but does not appear to meet ",
                           "revenue or volume thresholds. Verify manually.">>]

detect_ccpa_cpra(operating_regions, consumer_regions, annual_revenue, consumer_volume, sells_data) ==
    LET operates_in_ca == "California (US)" \in true_values(operating_regions)
        consumers_in_ca == "California (US)" \in true_values(consumer_regions)
        r1 == IF truthy(annual_revenue)
                 /\ value(annual_revenue) >= CCPA_REVENUE_THRESHOLD
              THEN << <<"Annual revenue ($">>
                      \o format_comma(value(annual_revenue))
                      \o <<") meets or exceeds ", "$">>
                      \o format_comma(CCPA_REVENUE_THRESHOLD)
                      \o <<" threshold.">> >>
              ELSE <<>>
        r2 == IF truthy(consumer_volume)
                 /\ value(consumer_volume) >= CCPA_CONSUMER_THRESHOLD
              THEN << <<"Consumer volume (">>
                      \o format_comma(value(consumer_volume))
                      \o <<") meets or exceeds ">>
                      \o format_comma(CCPA_CONSUMER_THRESHOLD)
                      \o <<" threshold.">> >>
              ELSE <<>>
        r3 == IF sells_data
              THEN << <<"Client derives revenue from selling personal information.">> >>
              ELSE <<>>
        reasons == r1 \o r2 \o r3
    IN  IF ~(operates_in_ca \/ consumers_in_ca)
        THEN [name |-> "CCPA/CPRA", applies |-> FALSE,
              reason |-> <<"No California operations or consumer base detected.">>]
        ELSE IF reasons # <<>>
        THEN [name |-> "CCPA/CPRA", applies |-> TRUE,
              reason |-> join(" ", reasons)]
        ELSE [name |-> "CCPA/CPRA", applies |-> FALSE,
              reason |-> <<"Client operates in California but does not appear to meet ",
                           "revenue or volume thresholds. Verify manually.">>]

\* Mutant of detect_tdpsa: the small-business exemption is tested before
\* the Texas gate.
detect_tdpsa_exemption_first(operating_regions, consumer_regions, consumer_volume, is_sba_small_business) ==
    LET operates_in_tx == "Texas (US)" \in true_values(operating_regions)
        consumers_in_tx == "Texas (US)" \in true_values(consumer_regions)
    IN  IF is_sba_small_business
        THEN [name |-> "TDPSA", applies |-> FALSE,
              reason |-> <<"Client qualifies as SBA small business and is ",
                           "exempt from TDPSA. Verify classification.">>]
        ELSE IF ~(operates_in_tx \/ consumers_in_tx)
        THEN [name |-> "TDPSA", applies |-> FALSE,
              reason |-> <<"No Texas operations or consumer base detected.">>]
        ELSE IF truthy(consumer_volume)
                /\ value(consumer_volume) >= TDPSA_CONSUMER_THRESHOLD
        THEN [name |-> "TDPSA", applies |-> TRUE,
              reason |-> <<"Client processes data of ">>
                  \o format_comma(value(consumer_volume))
                  \o <<" consumers ", "(threshold: ">>
                  \o format_comma(TDPSA_CONSUMER_THRESHOLD)
                  \o <<") and ", "operates in or targets Texas.">>]
        ELSE [name |-> "TDPSA", applies |-> FALSE,
              reason |-> <<"Client operates in Texas but consumer volume does not ",
                           "appear to meet the 100,000 threshold. Verify manually.">>]

\* Mutant of detect_tdpsa: the volume threshold is tested before the
\* small-business exemption.
detect_tdpsa_volume_first(operating_regions, consumer_regions, consumer_volume, is_sba_small_business) ==
    LET operates_in_tx == "Texas (US)" \in true_values(operating_regions)
        consumers_in_tx == "Texas (US)" \in true_values(consumer_regions)
    IN  IF ~(operates_in_tx \/ consumers_in_tx)
        THEN [name |-> "TDPSA", applies |-> FALSE,
              reason |-> <<"No Texas operations or consumer base detected.">>]
        ELSE IF truthy(consumer_volume)
                /\ value(consumer_volume) >= TDPSA_CONSUMER_THRESHOLD
        THEN [name |-> "TDPSA", applies |-> TRUE,
              reason |-> <<"Client processes data of ">>
                  \o format_comma(value(consumer_volume))
                  \o <<" consumers ", "(threshold: ">>
                  \o format_comma(TDPSA_CONSUMER_THRESHOLD)
                  \o <<") and ", "operates in or targets Texas.">>]
        ELSE IF is_sba_small_business
        THEN [name |-> "TDPSA", applies |-> FALSE,
              reason |-> <<"Client qualifies as SBA small business and is ",
                           "exempt from TDPSA. Verify classification.">>]
        ELSE [name |-> "TDPSA", applies |-> FALSE,
              reason |-> <<"Client operates in Texas but consumer volume does not ",
                           "appear to meet the 100,000 threshold. Verify manually.">>]

detect_tdpsa(operating_regions, consumer_regions, consumer_volume, is_sba_small_business) ==
    LET operates_in_tx == "Texas (US)" \in true_values(operating_regions)
        consumers_in_tx == "Texas (US)" \in true_values(consumer_regions)
    IN  IF ~(operates_in_tx \/ consumers_in_tx)
        THEN [name |-> "TDPSA", applies |-> FALSE,
              reason |-> <<"No Texas operations or consumer base detected.">>]
        ELSE IF is_sba_small_business
        THEN [name |-> "TDPSA", applies |-> FALSE,
              reason |-> <<"Client qualifies as SBA small business and is ",
                           "exempt from TDPSA. Verify classification.">>]
        ELSE IF truthy(consumer_volume)
                /\ value(consumer_volume) >= TDPSA_CONSUMER_THRESHOLD
        THEN [name |-> "TDPSA", applies |-> TRUE,
              reason |-> <<"Client processes data of ">>
                  \o format_comma(value(consumer_volume))
                  \o <<" consumers ", "(threshold: ">>
                  \o format_comma(TDPSA_CONSUMER_THRESHOLD)
                  \o <<") and ", "operates in or targets Texas.">>]
        ELSE [name |-> "TDPSA", applies |-> FALSE,
              reason |-> <<"Client operates in Texas but consumer volume does not ",
                           "appear to meet the 100,000 threshold. Verify manually.">>]

\* Mutant of detect_vcdpa: the second branch does not test sells_data.
detect_vcdpa_without_sale(operating_regions, consumer_regions, consumer_volume, sells_data) ==
    LET operates_in_va == "Virginia (US)" \in true_values(operating_regions)
        consumers_in_va == "Virginia (US)" \in true_values(consumer_regions)
    IN  IF ~(operates_in_va \/ consumers_in_va)
        THEN [name |-> "VCDPA", applies |-> FALSE,
              reason |-> <<"No Virginia operations or consumer base detected.">>]
        ELSE IF truthy(consumer_volume)
                /\ value(consumer_volume) >= VCDPA_CONSUMER_THRESHOLD
        THEN [name |-> "VCDPA", applies |-> TRUE,
              reason |-> <<"Client processes data of ">>
                  \o format_comma(value(consumer_volume))
                  \o <<" consumers ", "(threshold: ">>
                  \o format_comma(VCDPA_CONSUMER_THRESHOLD)
                  \o <<") and ", "operates in or targets Virginia.">>]
        ELSE IF truthy(consumer_volume)
                /\ value(consumer_volume) >= VCDPA_REVENUE_SHARE_THRESHOLD
        THEN [name |-> "VCDPA", applies |-> TRUE,
              reason |-> <<"Client processes data of ">>
                  \o format_comma(value(consumer_volume))
                  \o <<" Virginia consumers ",
                       "and derives revenue from sale of personal data.">>]
        ELSE [name |-> "VCDPA", applies |-> FALSE,
              reason |-> <<"Client operates in Virginia but does not appear to meet ",
                           "consumer volume thresholds. Verify manually.">>]

\* Mutant of detect_vcdpa: the first volume test reads
\* "if consumer_volume >= VCDPA_CONSUMER_THRESHOLD", which raises TypeError
\* for a missing volume.
detect_vcdpa_unguarded_comparison(operating_regions, consumer_regions, consumer_volume, sells_data) ==
    LET operates_in_va == "Virginia (US)" \in true_values(operating_regions)
        consumers_in_va == "Virginia (US)" \in true_values(consumer_regions)
    IN  IF ~(operates_in_va \/ consumers_in_va)
        THEN [name |-> "VCDPA", applies |-> FALSE,
              reason |-> <<"No Virginia operations or consumer base detected.">>]
        ELSE IF consumer_volume = None
        THEN [error |-> "TypeError"]
        ELSE IF value(consumer_volume) >= VCDPA_CONSUMER_THRESHOLD
        THEN [name |-> "VCDPA", applies |-> TRUE,
              reason |-> <<"Client processes data of ">>
                  \o format_comma(value(consumer_volume))
                  \o <<" consumers ", "(threshold: ">>
                  \o format_comma(VCDPA_CONSUMER_THRESHOLD)
                  \o <<") and ", "operates in or targets Virginia.">>]
        ELSE IF truthy(consumer_volume)
                /\ value(consumer_volume) >= VCDPA_REVENUE_SHARE_THRESHOLD
                /\ sells_data
        THEN [name |-> "VCDPA", applies |-> TRUE,
              reason |-> <<"Client processes data of ">>
                  \o format_comma(value(consumer_volume))
                  \o <<" Virginia consumers ",
                       "and derives revenue from sale of personal data.">>]
        ELSE [name |-> "VCDPA", applies |-> FALSE,
              reason |-> <<"Client operates in Virginia but does not appear to meet ",
                           "consumer volume thresholds. Verify manually.">>]

detect_vcdpa(operating_regions, consumer_regions, consumer_volume, sells_data) ==
    LET operates_in_va == "Virginia (US)" \in true_values(operating_regions)
        consumers_in_va == "Virginia (US)" \in true_values(consumer_regions)
    IN  IF ~(operates_in_va \/ consumers_in_va)
        THEN [name |-> "VCDPA", applies |-> FALSE,
              reason |-> <<"No Virginia operations or consumer base detected.">>]
        ELSE IF truthy(consumer_volume)
                /\ value(consumer_volume) >= VCDPA_CONSUMER_THRESHOLD
        THEN [name |-> "VCDPA", applies |-> TRUE,
              reason |-> <<"Client processes data of ">>
                  \o format_comma(value(consumer_volume))
                  \o <<" consumers ", "(threshold: ">>
                  \o format_comma(VCDPA_CONSUMER_THRESHOLD)
                  \o <<") and ", "operates in or targets Virginia.">>]
        ELSE IF truthy(consumer_volume)
                /\ value(consumer_volume) >= VCDPA_REVENUE_SHARE_THRESHOLD
                /\ sells_data
        THEN [name |-> "VCDPA", applies |-> TRUE,
              reason |-> <<"Client processes data of ">>
                  \o format_comma(value(consumer_volume))
                  \o <<" Virginia consumers ",
                       "and derives revenue from sale of personal data.">>]
        ELSE [name |-> "VCDPA", applies |-> FALSE,
              reason |-> <<"Client operates in Virginia but does not appear to meet ",
                           "consumer volume thresholds. Verify manually.">>]

(***************************************************************************)
(* jurisdiction_engine.py: the master detection function.                  *)
(***************************************************************************)
\* Mutant of detect_applicable_jurisdictions: only the results that apply
\* are returned.
detect_applicable_jurisdictions_applicable_only(operating_regions, consumer_regions, annual_revenue, consumer_volume, sells_data, is_sba_small_business, seed) ==
    SelectSeq(
        << detect_gdpr(operating_regions, consumer_regions, seed),
           detect_ccpa_cpra(operating_regions, consumer_regions,
                            annual_revenue, consumer_volume, sells_data),
           detect_tdpsa(operating_regions, consumer_regions,
                        consumer_volume, is_sba_small_business),
           detect_vcdpa(operating_regions, consumer_regions,
                        consumer_volume, sells_data) >>,
        LAMBDA r : r.applies)

detect_applicable_jurisdictions(operating_regions, consumer_regions, annual_revenue, consumer_volume, sells_data, is_sba_small_business, seed) ==
    << detect_gdpr(operating_regions, consumer_regions, seed),
       detect_ccpa_cpra(operating_regions, consumer_regions,
                        annual_revenue, consumer_volume, sells_data),
       detect_tdpsa(operating_regions, consumer_regions,
                    consumer_volume, is_sba_small_business),
       detect_vcdpa(operating_regions, consumer_regions,
                    consumer_volume, sells_data) >>

(***************************************************************************)
(* gap_analysis_engine.py: severity constants and helpers.                 *)
(***************************************************************************)
MUST_FIX == "Must Fix"

SHOULD_FIX == "Should Fix"

CONSIDER == "Consider Fixing"

_gap(jurisdiction, requirement, authority, current_state, gap, severity) ==
    [jurisdiction |-> jurisdiction,
     requirement |-> requirement,
     authority |-> authority,
     current_state |-> current_state,
     gap |-> gap,
     severity |-> severity]

\* "if cond: findings.append(finding)": what the statement adds to findings.
append_if(cond, finding) == IF cond THEN <<finding>> ELSE <<>>

\* dict.get(key, default) of a checkbox mapping.
get(m, key, default) == IF key \in DOMAIN m THEN m[key] ELSE default

(***************************************************************************)
(* gap_analysis_engine.py: the four checklist evaluators.  The findings    *)
(* list is the concatenation, in statement order, of what each "if" adds.  *)
(***************************************************************************)
\* Mutant of analyse_gdpr_gaps: the last rule is an "elif" of the rule
\* before it, so at most one of the two fires.
analyse_gdpr_gaps_training_elif(matter) ==
    LET p == matter.gdpr.posture
        g == matter.gdpr
        J == "GDPR"
    IN
       append_if(~p.lawful_basis_documented,
           _gap(J,
                "Lawful Basis Documentation",
                "Article 6 GDPR",
                "No documented lawful basis for processing activities.",
                "The client has not documented the lawful basis relied upon for each category of processing activity. Controllers must be able to demonstrate compliance with Article 5(2) accountability principle.",
                MUST_FIX))
    \o append_if(~p.ropa_maintained,
           _gap(J,
                "Record of Processing Activities (RoPA)",
                "Article 30 GDPR",
                "No RoPA maintained.",
                "The client does not maintain a Record of Processing Activities. This is a mandatory requirement for most controllers and processors.",
                MUST_FIX))
    \o append_if(~p.retention_schedule_documented,
           _gap(J,
                "Data Retention Schedule",
                "Article 5(1)(e) GDPR (storage limitation)",
                "No documented data retention schedule.",
                "The client has no documented schedule defining how long personal data is retained and the criteria used to determine retention periods.",
                SHOULD_FIX))
    \o append_if(get(g.lawful_bases, "Legitimate interests (Article 6(1)(f))", FALSE) /\ ~p.lia_documented,
           _gap(J,
                "Legitimate Interests Assessment (LIA)",
                "Article 6(1)(f) GDPR",
                "Legitimate interests relied upon but no LIA documented.",
                "Where legitimate interests is used as a lawful basis, a Legitimate Interests Assessment should be documented to demonstrate the balancing test has been performed.",
                CONSIDER))
    \o append_if(~p.privacy_notice_provided,
           _gap(J,
                "Privacy Notice at Collection",
                "Articles 13 and 14 GDPR",
                "No privacy notice provided to data subjects at point of collection.",
                "The client does not currently provide a compliant privacy notice at or before the point of data collection as required by Articles 13/14.",
                MUST_FIX))
    \o append_if(~p.cookie_consent_compliant,
           _gap(J,
                "Cookie Consent Mechanism",
                "ePrivacy Directive; GDPR Article 6",
                "Cookie consent mechanism absent or non-compliant.",
                "The client does not have a compliant cookie consent mechanism. Non-essential cookies require prior, freely given, specific, informed, and unambiguous consent.",
                SHOULD_FIX))
    \o append_if(get(g.lawful_bases, "Consent (Article 6(1)(a))", FALSE) /\ ~p.consent_records_maintained,
           _gap(J,
                "Consent Records",
                "Article 7(1) GDPR",
                "Consent relied upon but no mechanism to record or evidence consent.",
                "Where consent is the lawful basis, the controller must be able to demonstrate that the data subject has consented. No consent recording mechanism is currently in place.",
                MUST_FIX))
    \o append_if(~p.rights_procedure_documented,
           _gap(J,
                "Data Subject Rights Procedure",
                "Articles 15-22 GDPR",
                "No documented procedure for handling data subject rights requests.",
                "The client has no documented procedure for receiving, verifying, and responding to data subject rights requests within the one-month statutory deadline.",
                MUST_FIX))
    \o append_if(~p.article28_contracts_in_place,
           _gap(J,
                "Processor Contracts (Article 28 DPAs)",
                "Article 28 GDPR",
                "Article 28-compliant Data Processing Agreements not in place with all processors.",
                "The client does not have compliant Data Processing Agreements with all processors. This is a mandatory requirement wherever a processor handles personal data on the controller's behalf.",
                MUST_FIX))
    \o append_if(g.international_transfers /\ ~p.transfer_mechanism_in_place,
           _gap(J,
                "International Transfer Mechanism",
                "Articles 44-49 GDPR",
                "Personal data transferred outside UK/EEA without an adequate transfer mechanism.",
                "The client transfers personal data to third countries but does not have an appropriate transfer mechanism (adequacy decision, SCCs, BCRs, or IDTA) in place as required by Chapter V GDPR.",
                MUST_FIX))
    \o append_if(~p.breach_procedure_documented,
           _gap(J,
                "Data Breach Response Procedure",
                "Articles 33 and 34 GDPR",
                "No documented breach detection, assessment, and notification procedure.",
                "The client has no documented procedure for detecting, assessing, and notifying the supervisory authority (within 72 hours) and affected data subjects of personal data breaches.",
                MUST_FIX))
    \o append_if(g.requires_dpia /\ ~p.dpia_conducted,
           _gap(J,
                "Data Protection Impact Assessment (DPIA)",
                "Article 35 GDPR",
                "High-risk processing identified but no DPIA conducted.",
                "The client's processing activities indicate that a DPIA is likely required under Article 35, but none has been conducted. A DPIA is mandatory before commencing high-risk processing.",
                MUST_FIX))
    \o append_if(~p.privacy_by_design,
           _gap(J,
                "Privacy by Design and Default",
                "Article 25 GDPR",
                "Privacy by design principles not embedded in new projects or systems.",
                "The client does not currently implement data protection by design and by default when developing new products, services, or systems.",
                SHOULD_FIX))
    \o append_if(p.privacy_by_design /\ ~p.staff_training_current,
           _gap(J,
                "Staff Data Protection Training",
                "Article 5(2) GDPR (accountability); Article 39(1)(b)",
                "Staff have not received data protection training in the last 12 months.",
                "No evidence of current staff data protection training. Regular training is a key element of the accountability principle and a DPO obligation where a DPO is appointed.",
                SHOULD_FIX))

\* Mutant of analyse_gdpr_gaps: the transfer-mechanism rule reads
\* "if not p.transfer_mechanism_in_place", its trigger dropped.
analyse_gdpr_gaps_transfer_untriggered(matter) ==
    LET p == matter.gdpr.posture
        g == matter.gdpr
        J == "GDPR"
    IN
       append_if(~p.lawful_basis_documented,
           _gap(J,
                "Lawful Basis Documentation",
                "Article 6 GDPR",
                "No documented lawful basis for processing activities.",
                "The client has not documented the lawful basis relied upon for each category of processing activity. Controllers must be able to demonstrate compliance with Article 5(2) accountability principle.",
                MUST_FIX))
    \o append_if(~p.ropa_maintained,
           _gap(J,
                "Record of Processing Activities (RoPA)",
                "Article 30 GDPR",
                "No RoPA maintained.",
                "The client does not maintain a Record of Processing Activities. This is a mandatory requirement for most controllers and processors.",
                MUST_FIX))
    \o append_if(~p.retention_schedule_documented,
           _gap(J,
                "Data Retention Schedule",
                "Article 5(1)(e) GDPR (storage limitation)",
                "No documented data retention schedule.",
                "The client has no documented schedule defining how long personal data is retained and the criteria used to determine retention periods.",
                SHOULD_FIX))
    \o append_if(get(g.lawful_bases, "Legitimate interests (Article 6(1)(f))", FALSE) /\ ~p.lia_documented,
           _gap(J,
                "Legitimate Interests Assessment (LIA)",
                "Article 6(1)(f) GDPR",
                "Legitimate interests relied upon but no LIA documented.",
                "Where legitimate interests is used as a lawful basis, a Legitimate Interests Assessment should be documented to demonstrate the balancing test has been performed.",
                CONSIDER))
    \o append_if(~p.privacy_notice_provided,
           _gap(J,
                "Privacy Notice at Collection",
                "Articles 13 and 14 GDPR",
                "No privacy notice provided to data subjects at point of collection.",
                "The client does not currently provide a compliant privacy notice at or before the point of data collection as required by Articles 13/14.",
                MUST_FIX))
    \o append_if(~p.cookie_consent_compliant,
           _gap(J,
                "Cookie Consent Mechanism",
                "ePrivacy Directive; GDPR Article 6",
                "Cookie consent mechanism absent or non-compliant.",
                "The client does not have a compliant cookie consent mechanism. Non-essential cookies require prior, freely given, specific, informed, and unambiguous consent.",
                SHOULD_FIX))
    \o append_if(get(g.lawful_bases, "Consent (Article 6(1)(a))", FALSE) /\ ~p.consent_records_maintained,
           _gap(J,
                "Consent Records",
                "Article 7(1) GDPR",
                "Consent relied upon but no mechanism to record or evidence consent.",
                "Where consent is the lawful basis, the controller must be able to demonstrate that the data subject has consented. No consent recording mechanism is currently in place.",
                MUST_FIX))
    \o append_if(~p.rights_procedure_documented,
           _gap(J,
                "Data Subject Rights Procedure",
                "Articles 15-22 GDPR",
                "No documented procedure for handling data subject rights requests.",
                "The client has no documented procedure for receiving, verifying, and responding to data subject rights requests within the one-month statutory deadline.",
                MUST_FIX))
    \o append_if(~p.article28_contracts_in_place,
           _gap(J,
                "Processor Contracts (Article 28 DPAs)",
                "Article 28 GDPR",
                "Article 28-compliant Data Processing Agreements not in place with all processors.",
                "The client does not have compliant Data Processing Agreements with all processors. This is a mandatory requirement wherever a processor handles personal data on the controller's behalf.",
                MUST_FIX))
    \o append_if(~p.transfer_mechanism_in_place,
           _gap(J,
                "International Transfer Mechanism",
                "Articles 44-49 GDPR",
                "Personal data transferred outside UK/EEA without an adequate transfer mechanism.",
                "The client transfers personal data to third countries but does not have an appropriate transfer mechanism (adequacy decision, SCCs, BCRs, or IDTA) in place as required by Chapter V GDPR.",
                MUST_FIX))
    \o append_if(~p.breach_procedure_documented,
           _gap(J,
                "Data Breach Response Procedure",
                "Articles 33 and 34 GDPR",
                "No documented breach detection, assessment, and notification procedure.",
                "The client has no documented procedure for detecting, assessing, and notifying the supervisory authority (within 72 hours) and affected data subjects of personal data breaches.",
                MUST_FIX))
    \o append_if(g.requires_dpia /\ ~p.dpia_conducted,
           _gap(J,
                "Data Protection Impact Assessment (DPIA)",
                "Article 35 GDPR",
                "High-risk processing identified but no DPIA conducted.",
                "The client's processing activities indicate that a DPIA is likely required under Article 35, but none has been conducted. A DPIA is mandatory before commencing high-risk processing.",
                MUST_FIX))
    \o append_if(~p.privacy_by_design,
           _gap(J,
                "Privacy by Design and Default",
                "Article 25 GDPR",
                "Privacy by design principles not embedded in new projects or systems.",
                "The client does not currently implement data protection by design and by default when developing new products, services, or systems.",
                SHOULD_FIX))
    \o append_if(~p.staff_training_current,
           _gap(J,
                "Staff Data Protection Training",
                "Article 5(2) GDPR (accountability); Article 39(1)(b)",
                "Staff have not received data protection training in the last 12 months.",
                "No evidence of current staff data protection training. Regular training is a key element of the accountability principle and a DPO obligation where a DPO is appointed.",
                SHOULD_FIX))

analyse_gdpr_gaps(matter) ==
    LET p == matter.gdpr.posture
        g == matter.gdpr
        J == "GDPR"
    IN
       append_if(~p.lawful_basis_documented,
           _gap(J,
                "Lawful Basis Documentation",
                "Article 6 GDPR",
                "No documented lawful basis for processing activities.",
                "The client has not documented the lawful basis relied upon for each category of processing activity. Controllers must be able to demonstrate compliance with Article 5(2) accountability principle.",
                MUST_FIX))
    \o append_if(~p.ropa_maintained,
           _gap(J,
                "Record of Processing Activities (RoPA)",
                "Article 30 GDPR",
                "No RoPA maintained.",
                "The client does not maintain a Record of Processing Activities. This is a mandatory requirement for most controllers and processors.",
                MUST_FIX))
    \o append_if(~p.retention_schedule_documented,
           _gap(J,
                "Data Retention Schedule",
                "Article 5(1)(e) GDPR (storage limitation)",
                "No documented data retention schedule.",
                "The client has no documented schedule defining how long personal data is retained and the criteria used to determine retention periods.",
                SHOULD_FIX))
    \o append_if(get(g.lawful_bases, "Legitimate interests (Article 6(1)(f))", FALSE) /\ ~p.lia_documented,
           _gap(J,
                "Legitimate Interests Assessment (LIA)",
                "Article 6(1)(f) GDPR",
                "Legitimate interests relied upon but no LIA documented.",
                "Where legitimate interests is used as a lawful basis, a Legitimate Interests Assessment should be documented to demonstrate the balancing test has been performed.",
                CONSIDER))
    \o append_if(~p.privacy_notice_provided,
           _gap(J,
                "Privacy Notice at Collection",
                "Articles 13 and 14 GDPR",
                "No privacy notice provided to data subjects at point of collection.",
                "The client does not currently provide a compliant privacy notice at or before the point of data collection as required by Articles 13/14.",
                MUST_FIX))
    \o append_if(~p.cookie_consent_compliant,
           _gap(J,
                "Cookie Consent Mechanism",
                "ePrivacy Directive; GDPR Article 6",
                "Cookie consent mechanism absent or non-compliant.",
                "The client does not have a compliant cookie consent mechanism. Non-essential cookies require prior, freely given, specific, informed, and unambiguous consent.",
                SHOULD_FIX))
    \o append_if(get(g.lawful_bases, "Consent (Article 6(1)(a))", FALSE) /\ ~p.consent_records_maintained,
           _gap(J,
                "Consent Records",
                "Article 7(1) GDPR",
                "Consent relied upon but no mechanism to record or evidence consent.",
                "Where consent is the lawful basis, the controller must be able to demonstrate that the data subject has consented. No consent recording mechanism is currently in place.",
                MUST_FIX))
    \o append_if(~p.rights_procedure_documented,
           _gap(J,
                "Data Subject Rights Procedure",
                "Articles 15-22 GDPR",
                "No documented procedure for handling data subject rights requests.",
                "The client has no documented procedure for receiving, verifying, and responding to data subject rights requests within the one-month statutory deadline.",
                MUST_FIX))
    \o append_if(~p.article28_contracts_in_place,
           _gap(J,
                "Processor Contracts (Article 28 DPAs)",
                "Article 28 GDPR",
                "Article 28-compliant Data Processing Agreements not in place with all processors.",
                "The client does not have compliant Data Processing Agreements with all processors. This is a mandatory requirement wherever a processor handles personal data on the controller's behalf.",
                MUST_FIX))
    \o append_if(g.international_transfers /\ ~p.transfer_mechanism_in_place,
           _gap(J,
                "International Transfer Mechanism",
                "Articles 44-49 GDPR",
                "Personal data transferred outside UK/EEA without an adequate transfer mechanism.",
                "The client transfers personal data to third countries but does not have an appropriate transfer mechanism (adequacy decision, SCCs, BCRs, or IDTA) in place as required by Chapter V GDPR.",
                MUST_FIX))
    \o append_if(~p.breach_procedure_documented,
           _gap(J,
                "Data Breach Response Procedure",
                "Articles 33 and 34 GDPR",
                "No documented breach detection, assessment, and notification procedure.",
                "The client has no documented procedure for detecting, assessing, and notifying the supervisory authority (within 72 hours) and affected data subjects of personal data breaches.",
                MUST_FIX))
    \o append_if(g.requires_dpia /\ ~p.dpia_conducted,
           _gap(J,
                "Data Protection Impact Assessment (DPIA)",
                "Article 35 GDPR",
                "High-risk processing identified but no DPIA conducted.",
                "The client's processing activities indicate that a DPIA is likely required under Article 35, but none has been conducted. A DPIA is mandatory before commencing high-risk processing.",
                MUST_FIX))
    \o append_if(~p.privacy_by_design,
           _gap(J,
                "Privacy by Design and Default",
                "Article 25 GDPR",
                "Privacy by design principles not embedded in new projects or systems.",
                "The client does not currently implement data protection by design and by default when developing new products, services, or systems.",
                SHOULD_FIX))
    \o append_if(~p.staff_training_current,
           _gap(J,
                "Staff Data Protection Training",
                "Article 5(2) GDPR (accountability); Article 39(1)(b)",
                "Staff have not received data protection training in the last 12 months.",
                "No evidence of current staff data protection training. Regular training is a key element of the accountability principle and a DPO obligation where a DPO is appointed.",
                SHOULD_FIX))

\* Mutant of analyse_ccpa_gaps: the GPC rule reads
\* "if c.sells_pi and not p.gpc_honoured".
analyse_ccpa_gaps_gpc_on_sale(matter) ==
    LET p == matter.ccpa.posture
        c == matter.ccpa
        J == "CCPA/CPRA"
    IN
       append_if(~p.notice_at_collection,
           _gap(J,
                "Notice at Collection",
                "Cal. Civ. Code Sec. 1798.100(a)",
                "No privacy notice at collection provided to California consumers.",
                "The client does not provide a notice at or before the point of collecting personal information disclosing the categories of PI collected and the purposes for which it is used.",
                MUST_FIX))
    \o append_if(~p.policy_updated_12mo,
           _gap(J,
                "Privacy Policy Currency",
                "Cal. Civ. Code Sec. 1798.130(a)(5)",
                "Published privacy policy not updated within the last 12 months.",
                "Businesses subject to CCPA must update their privacy policy at least once every 12 months.",
                MUST_FIX))
    \o append_if(~p.policy_disclosures_complete,
           _gap(J,
                "Required Privacy Policy Disclosures",
                "Cal. Civ. Code Sec. 1798.130(a)(5)",
                "Privacy policy does not include all required CCPA/CPRA disclosures.",
                "The client's current privacy policy is missing one or more of the disclosures required by CCPA/CPRA, including categories of PI collected, sources, purposes, third-party disclosures, and consumer rights.",
                MUST_FIX))
    \o append_if(c.sells_pi /\ ~p.opt_out_mechanism_in_place,
           _gap(J,
                "\"Do Not Sell or Share\" Opt-Out Mechanism",
                "Cal. Civ. Code Sec. 1798.120",
                "Client sells/shares PI but no opt-out mechanism is in place.",
                "The client sells or shares personal information but has not implemented a \"Do Not Sell or Share My Personal Information\" link or equivalent mechanism as required.",
                MUST_FIX))
    \o append_if(c.sells_pi /\ ~p.gpc_honoured,
           _gap(J,
                "Global Privacy Control (GPC) Signal",
                "CPPA Regulations Sec. 999.315(d)",
                "Global Privacy Control signal not honoured.",
                "The client does not automatically honour the Global Privacy Control opt-out signal. This is required under CPPA regulations for businesses subject to CCPA/CPRA.",
                MUST_FIX))
    \o append_if(c.uses_spi_beyond_primary /\ ~p.spi_limit_mechanism_in_place,
           _gap(J,
                "\"Limit Use of Sensitive Personal Information\" Mechanism",
                "Cal. Civ. Code Sec. 1798.121",
                "SPI used beyond primary purpose but no limit mechanism in place.",
                "The client uses sensitive personal information beyond what is necessary for the primary purpose but has not provided a mechanism for consumers to limit such use as required by Sec. 1798.121.",
                MUST_FIX))
    \o append_if(~p.rights_procedure_45_days,
           _gap(J,
                "Consumer Rights Request Procedure (45-day)",
                "Cal. Civ. Code Sec. 1798.105, Sec. 1798.106",
                "No documented procedure to respond to consumer rights requests within 45 days.",
                "The client has no documented procedure for receiving and responding to consumer rights requests within the 45-day statutory deadline (extendable by an additional 45 days with notice).",
                MUST_FIX))
    \o append_if(~p.service_provider_contracts_compliant,
           _gap(J,
                "Service Provider and Contractor Contracts",
                "Cal. Civ. Code Sec. 1798.140(ag)",
                "Service provider/contractor agreements do not include required CPRA provisions.",
                "Contracts with service providers, contractors, and third parties must include specific provisions required by CPRA. Current contracts do not meet these requirements.",
                MUST_FIX))
    \o append_if(~p.staff_trained,
           _gap(J,
                "Staff Training on Consumer Rights",
                "Cal. Civ. Code Sec. 1798.135(a)(3)",
                "Staff who handle consumer rights requests have not been trained.",
                "Businesses must train all individuals responsible for handling consumer inquiries about CCPA/CPRA privacy practices.",
                SHOULD_FIX))
    \o append_if(~p.deletion_verification_in_place,
           _gap(J,
                "Two-Step Verification for Deletion Requests",
                "CPPA Regulations Sec. 999.323",
                "No two-step verification process for deletion requests implemented.",
                "A two-step verification process for online deletion requests is recommended under CPPA regulations to reduce fraudulent requests.",
                SHOULD_FIX))

analyse_ccpa_gaps(matter) ==
    LET p == matter.ccpa.posture
        c == matter.ccpa
        J == "CCPA/CPRA"
    IN
       append_if(~p.notice_at_collection,
           _gap(J,
                "Notice at Collection",
                "Cal. Civ. Code Sec. 1798.100(a)",
                "No privacy notice at collection provided to California consumers.",
                "The client does not provide a notice at or before the point of collecting personal information disclosing the categories of PI collected and the purposes for which it is used.",
                MUST_FIX))
    \o append_if(~p.policy_updated_12mo,
           _gap(J,
                "Privacy Policy Currency",
                "Cal. Civ. Code Sec. 1798.130(a)(5)",
                "Published privacy policy not updated within the last 12 months.",
                "Businesses subject to CCPA must update their privacy policy at least once every 12 months.",
                MUST_FIX))
    \o append_if(~p.policy_disclosures_complete,
           _gap(J,
                "Required Privacy Policy Disclosures",
                "Cal. Civ. Code Sec. 1798.130(a)(5)",
                "Privacy policy does not include all required CCPA/CPRA disclosures.",
                "The client's current privacy policy is missing one or more of the disclosures required by CCPA/CPRA, including categories of PI collected, sources, purposes, third-party disclosures, and consumer rights.",
                MUST_FIX))
    \o append_if(c.sells_pi /\ ~p.opt_out_mechanism_in_place,
           _gap(J,
                "\"Do Not Sell or Share\" Opt-Out Mechanism",
                "Cal. Civ. Code Sec. 1798.120",
                "Client sells/shares PI but no opt-out mechanism is in place.",
                "The client sells or shares personal information but has not implemented a \"Do Not Sell or Share My Personal Information\" link or equivalent mechanism as required.",
                MUST_FIX))
    \o append_if(~p.gpc_honoured,
           _gap(J,
                "Global Privacy Control (GPC) Signal",
                "CPPA Regulations Sec. 999.315(d)",
                "Global Privacy Control signal not honoured.",
                "The client does not automatically honour the Global Privacy Control opt-out signal. This is required under CPPA regulations for businesses subject to CCPA/CPRA.",
                MUST_FIX))
    \o append_if(c.uses_spi_beyond_primary /\ ~p.spi_limit_mechanism_in_place,
           _gap(J,
                "\"Limit Use of Sensitive Personal Information\" Mechanism",
                "Cal. Civ. Code Sec. 1798.121",
                "SPI used beyond primary purpose but no limit mechanism in place.",
                "The client uses sensitive personal information beyond what is necessary for the primary purpose but has not provided a mechanism for consumers to limit such use as required by Sec. 1798.121.",
                MUST_FIX))
    \o append_if(~p.rights_procedure_45_days,
           _gap(J,
                "Consumer Rights Request Procedure (45-day)",
                "Cal. Civ. Code Sec. 1798.105, Sec. 1798.106",
                "No documented procedure to respond to consumer rights requests within 45 days.",
                "The client has no documented procedure for receiving and responding to consumer rights requests within the 45-day statutory deadline (extendable by an additional 45 days with notice).",
                MUST_FIX))
    \o append_if(~p.service_provider_contracts_compliant,
           _gap(J,
                "Service Provider and Contractor Contracts",
                "Cal. Civ. Code Sec. 1798.140(ag)",
                "Service provider/contractor agreements do not include required CPRA provisions.",
                "Contracts with service providers, contractors, and third parties must include specific provisions required by CPRA. Current contracts do not meet these requirements.",
                MUST_FIX))
    \o append_if(~p.staff_trained,
           _gap(J,
                "Staff Training on Consumer Rights",
                "Cal. Civ. Code Sec. 1798.135(a)(3)",
                "Staff who handle consumer rights requests have not been trained.",
                "Businesses must train all individuals responsible for handling consumer inquiries about CCPA/CPRA privacy practices.",
                SHOULD_FIX))
    \o append_if(~p.deletion_verification_in_place,
           _gap(J,
                "Two-Step Verification for Deletion Requests",
                "CPPA Regulations Sec. 999.323",
                "No two-step verification process for deletion requests implemented.",
                "A two-step verification process for online deletion requests is recommended under CPPA regulations to reduce fraudulent requests.",
                SHOULD_FIX))

\* Mutant of analyse_tdpsa_gaps: the second rule is an "elif" of the first,
\* so it is skipped when the privacy notice is missing.
analyse_tdpsa_gaps_elif_chain(matter) ==
    LET p == matter.tdpsa.posture
        t == matter.tdpsa
        J == "TDPSA"
    IN
       append_if(~p.privacy_notice_provided,
           _gap(J,
                "Privacy Notice",
                "Tex. Bus. & Com. Code Sec. 541.101",
                "No TDPSA-compliant privacy notice provided to Texas consumers.",
                "Controllers must provide consumers with a reasonably accessible, clear, and meaningful privacy notice covering required disclosures.",
                MUST_FIX))
    \o append_if(p.privacy_notice_provided /\ ~p.rights_procedure_45_days,
           _gap(J,
                "Consumer Rights Response Procedure (45-day)",
                "Tex. Bus. & Com. Code Sec. 541.052",
                "No documented procedure to respond to consumer requests within 45 days.",
                "Controllers must respond to authenticated consumer rights requests within 45 days, with a possible 45-day extension on notice.",
                MUST_FIX))
    \o append_if(~p.appeals_procedure,
           _gap(J,
                "Consumer Appeals Procedure",
                "Tex. Bus. & Com. Code Sec. 541.053",
                "No appeals procedure in place for denied consumer requests.",
                "Controllers must establish an internal appeals process for consumers to appeal the denial of a rights request.",
                MUST_FIX))
    \o append_if(t.include_opt_out_section /\ ~p.opt_out_mechanism_in_place,
           _gap(J,
                "Opt-Out Mechanism for Targeted Advertising / Sale / Profiling",
                "Tex. Bus. & Com. Code Sec. 541.051",
                "No opt-out mechanism in place for applicable processing activities.",
                "The client engages in targeted advertising, sale of personal data, or profiling with significant effects but has not provided a clear mechanism for consumers to opt out.",
                MUST_FIX))
    \o append_if(~p.uoom_supported,
           _gap(J,
                "Universal Opt-Out Mechanism (UOOM)",
                "Tex. Bus. & Com. Code Sec. 541.056",
                "Universal Opt-Out Mechanism not supported.",
                "Controllers must honour a universal opt-out mechanism recognised by the Texas Attorney General. The client does not currently support any such mechanism.",
                MUST_FIX))
    \o append_if(matter.footprint.processes_sensitive_data /\ ~p.sensitive_data_consent_obtained,
           _gap(J,
                "Sensitive Data Opt-In Consent",
                "Tex. Bus. & Com. Code Sec. 541.101(b)",
                "Sensitive data processed without opt-in consent mechanism.",
                "Processing of sensitive personal data requires the consumer's prior opt-in consent. No consent mechanism is currently in place.",
                MUST_FIX))
    \o append_if(~p.dpa_contracts_in_place,
           _gap(J,
                "Data Processing Agreements with Processors",
                "Tex. Bus. & Com. Code Sec. 541.104",
                "Data Processing Agreements with processors not in place.",
                "Controllers must enter into binding contracts with processors that include required data protection provisions.",
                MUST_FIX))
    \o append_if(t.include_opt_out_section /\ ~p.dpa_assessments_completed,
           _gap(J,
                "Data Protection Assessments",
                "Tex. Bus. & Com. Code Sec. 541.105",
                "Data Protection Assessments not completed for high-risk processing.",
                "Controllers must conduct and document Data Protection Assessments before engaging in processing that presents a heightened risk of harm.",
                MUST_FIX))

\* Mutant of analyse_tdpsa_gaps: the universal opt-out rule reads
\* "if t.include_opt_out_section and not p.uoom_supported".
analyse_tdpsa_gaps_uoom_on_opt_out(matter) ==
    LET p == matter.tdpsa.posture
        t == matter.tdpsa
        J == "TDPSA"
    IN
       append_if(~p.privacy_notice_provided,
           _gap(J,
                "Privacy Notice",
                "Tex. Bus. & Com. Code Sec. 541.101",
                "No TDPSA-compliant privacy notice provided to Texas consumers.",
                "Controllers must provide consumers with a reasonably accessible, clear, and meaningful privacy notice covering required disclosures.",
                MUST_FIX))
    \o append_if(~p.rights_procedure_45_days,
           _gap(J,
                "Consumer Rights Response Procedure (45-day)",
                "Tex. Bus. & Com. Code Sec. 541.052",
                "No documented procedure to respond to consumer requests within 45 days.",
                "Controllers must respond to authenticated consumer rights requests within 45 days, with a possible 45-day extension on notice.",
                MUST_FIX))
    \o append_if(~p.appeals_procedure,
           _gap(J,
                "Consumer Appeals Procedure",
                "Tex. Bus. & Com. Code Sec. 541.053",
                "No appeals procedure in place for denied consumer requests.",
                "Controllers must establish an internal appeals process for consumers to appeal the denial of a rights request.",
                MUST_FIX))
    \o append_if(t.include_opt_out_section /\ ~p.opt_out_mechanism_in_place,
           _gap(J,
                "Opt-Out Mechanism for Targeted Advertising / Sale / Profiling",
                "Tex. Bus. & Com. Code Sec. 541.051",
                "No opt-out mechanism in place for applicable processing activities.",
                "The client engages in targeted advertising, sale of personal data, or profiling with significant effects but has not provided a clear mechanism for consumers to opt out.",
                MUST_FIX))
    \o append_if(t.include_opt_out_section /\ ~p.uoom_supported,
           _gap(J,
                "Universal Opt-Out Mechanism (UOOM)",
                "Tex. Bus. & Com. Code Sec. 541.056",
                "Universal Opt-Out Mechanism not supported.",
                "Controllers must honour a universal opt-out mechanism recognised by the Texas Attorney General. The client does not currently support any such mechanism.",
                MUST_FIX))
    \o append_if(matter.footprint.processes_sensitive_data /\ ~p.sensitive_data_consent_obtained,
           _gap(J,
                "Sensitive Data Opt-In Consent",
                "Tex. Bus. & Com. Code Sec. 541.101(b)",
                "Sensitive data processed without opt-in consent mechanism.",
                "Processing of sensitive personal data requires the consumer's prior opt-in consent. No consent mechanism is currently in place.",
                MUST_FIX))
    \o append_if(~p.dpa_contracts_in_place,
           _gap(J,
                "Data Processing Agreements with Processors",
                "Tex. Bus. & Com. Code Sec. 541.104",
                "Data Processing Agreements with processors not in place.",
                "Controllers must enter into binding contracts with processors that include required data protection provisions.",
                MUST_FIX))
    \o append_if(t.include_opt_out_section /\ ~p.dpa_assessments_completed,
           _gap(J,
                "Data Protection Assessments",
                "Tex. Bus. & Com. Code Sec. 541.105",
                "Data Protection Assessments not completed for high-risk processing.",
                "Controllers must conduct and document Data Protection Assessments before engaging in processing that presents a heightened risk of harm.",
                MUST_FIX))

analyse_tdpsa_gaps(matter) ==
    LET p == matter.tdpsa.posture
        t == matter.tdpsa
        J == "TDPSA"
    IN
       append_if(~p.privacy_notice_provided,
           _gap(J,
                "Privacy Notice",
                "Tex. Bus. & Com. Code Sec. 541.101",
                "No TDPSA-compliant privacy notice provided to Texas consumers.",
                "Controllers must provide consumers with a reasonably accessible, clear, and meaningful privacy notice covering required disclosures.",
                MUST_FIX))
    \o append_if(~p.rights_procedure_45_days,
           _gap(J,
                "Consumer Rights Response Procedure (45-day)",
                "Tex. Bus. & Com. Code Sec. 541.052",
                "No documented procedure to respond to consumer requests within 45 days.",
                "Controllers must respond to authenticated consumer rights requests within 45 days, with a possible 45-day extension on notice.",
                MUST_FIX))
    \o append_if(~p.appeals_procedure,
           _gap(J,
                "Consumer Appeals Procedure",
                "Tex. Bus. & Com. Code Sec. 541.053",
                "No appeals procedure in place for denied consumer requests.",
                "Controllers must establish an internal appeals process for consumers to appeal the denial of a rights request.",
                MUST_FIX))
    \o append_if(t.include_opt_out_section /\ ~p.opt_out_mechanism_in_place,
           _gap(J,
                "Opt-Out Mechanism for Targeted Advertising / Sale / Profiling",
                "Tex. Bus. & Com. Code Sec. 541.051",
                "No opt-out mechanism in place for applicable processing activities.",
                "The client engages in targeted advertising, sale of personal data, or profiling with significant effects but has not provided a clear mechanism for consumers to opt out.",
                MUST_FIX))
    \o append_if(~p.uoom_supported,
           _gap(J,
                "Universal Opt-Out Mechanism (UOOM)",
                "Tex. Bus. & Com. Code Sec. 541.056",
                "Universal Opt-Out Mechanism not supported.",
                "Controllers must honour a universal opt-out mechanism recognised by the Texas Attorney General. The client does not currently support any such mechanism.",
                MUST_FIX))
    \o append_if(matter.footprint.processes_sensitive_data /\ ~p.sensitive_data_consent_obtained,
           _gap(J,
                "Sensitive Data Opt-In Consent",
                "Tex. Bus. & Com. Code Sec. 541.101(b)",
                "Sensitive data processed without opt-in consent mechanism.",
                "Processing of sensitive personal data requires the consumer's prior opt-in consent. No consent mechanism is currently in place.",
                MUST_FIX))
    \o append_if(~p.dpa_contracts_in_place,
           _gap(J,
                "Data Processing Agreements with Processors",
                "Tex. Bus. & Com. Code Sec. 541.104",
                "Data Processing Agreements with processors not in place.",
                "Controllers must enter into binding contracts with processors that include required data protection provisions.",
                MUST_FIX))
    \o append_if(t.include_opt_out_section /\ ~p.dpa_assessments_completed,
           _gap(J,
                "Data Protection Assessments",
                "Tex. Bus. & Com. Code Sec. 541.105",
                "Data Protection Assessments not completed for high-risk processing.",
                "Controllers must conduct and document Data Protection Assessments before engaging in processing that presents a heightened risk of harm.",
                MUST_FIX))

\* Mutant of analyse_vcdpa_gaps: the last rule reads
\* "if p.third_party_contracts_updated", its negation dropped.
analyse_vcdpa_gaps_negation_dropped(matter) ==
    LET p == matter.vcdpa.posture
        v == matter.vcdpa
        J == "VCDPA"
    IN
       append_if(~p.privacy_notice_provided,
           _gap(J,
                "Privacy Notice",
                "Va. Code Ann. Sec. 59.1-578(A)",
                "No VCDPA-compliant privacy notice provided to Virginia consumers.",
                "Controllers must provide consumers with a reasonably accessible privacy notice that includes all disclosures required by Sec. 59.1-578.",
                MUST_FIX))
    \o append_if(~p.rights_procedure_45_days,
           _gap(J,
                "Consumer Rights Response Procedure (45-day)",
                "Va. Code Ann. Sec. 59.1-581(A)",
                "No documented procedure to respond to consumer requests within 45 days.",
                "Controllers must respond to authenticated consumer rights requests within 45 days. An additional 45-day extension is permitted with notice.",
                MUST_FIX))
    \o append_if(~p.appeals_procedure,
           _gap(J,
                "Consumer Appeals Procedure",
                "Va. Code Ann. Sec. 59.1-581(C)",
                "No appeals procedure in place for denied consumer requests.",
                "Controllers must establish and make available an internal process for consumers to appeal the denial of any rights request.",
                MUST_FIX))
    \o append_if(v.include_opt_out_section /\ ~p.opt_out_mechanism_in_place,
           _gap(J,
                "Opt-Out Mechanism for Targeted Advertising / Sale / Profiling",
                "Va. Code Ann. Sec. 59.1-578(A)(5)",
                "No opt-out mechanism in place for applicable processing activities.",
                "The client engages in targeted advertising, sale of personal data, or profiling with significant effects but has not provided a mechanism for consumers to opt out.",
                MUST_FIX))
    \o append_if(v.processes_sensitive_data /\ ~p.sensitive_data_consent_obtained,
           _gap(J,
                "Sensitive Data Opt-In Consent",
                "Va. Code Ann. Sec. 59.1-578(B)",
                "Sensitive data processed without opt-in consent.",
                "Processing of sensitive data requires the consumer's prior, freely given, specific, and unambiguous opt-in consent. No such mechanism is currently in place.",
                MUST_FIX))
    \o append_if(~p.dpa_contracts_in_place,
           _gap(J,
                "Data Processing Agreements with Processors",
                "Va. Code Ann. Sec. 59.1-580",
                "Data Processing Agreements with processors not in place.",
                "Controllers must enter into binding contracts with processors governing the processing of personal data and including all provisions required by Sec. 59.1-580.",
                MUST_FIX))
    \o append_if(v.include_opt_out_section /\ ~p.pia_assessments_completed,
           _gap(J,
                "Data Protection Impact Assessments (PIAs)",
                "Va. Code Ann. Sec. 59.1-582",
                "Data Protection Impact Assessments not completed for high-risk processing.",
                "Controllers must conduct and document Data Protection Impact Assessments for processing activities that present a heightened risk of harm to consumers.",
                MUST_FIX))
    \o append_if(p.third_party_contracts_updated,
           _gap(J,
                "Third-Party Contracts Updated for VCDPA",
                "Va. Code Ann. Sec. 59.1-580",
                "Contracts with third parties not reviewed or updated for VCDPA compliance.",
                "Existing contracts with third parties who receive personal data should be reviewed and updated to include VCDPA-required provisions.",
                SHOULD_FIX))

\* Mutant of analyse_vcdpa_gaps: the impact-assessment rule tests
\* v.processes_sensitive_data in place of v.include_opt_out_section.
analyse_vcdpa_gaps_pia_on_sensitive(matter) ==
    LET p == matter.vcdpa.posture
        v == matter.vcdpa
        J == "VCDPA"
    IN
       append_if(~p.privacy_notice_provided,
           _gap(J,
                "Privacy Notice",
                "Va. Code Ann. Sec. 59.1-578(A)",
                "No VCDPA-compliant privacy notice provided to Virginia consumers.",
                "Controllers must provide consumers with a reasonably accessible privacy notice that includes all disclosures required by Sec. 59.1-578.",
                MUST_FIX))
    \o append_if(~p.rights_procedure_45_days,
           _gap(J,
                "Consumer Rights Response Procedure (45-day)",
                "Va. Code Ann. Sec. 59.1-581(A)",
                "No documented procedure to respond to consumer requests within 45 days.",
                "Controllers must respond to authenticated consumer rights requests within 45 days. An additional 45-day extension is permitted with notice.",
                MUST_FIX))
    \o append_if(~p.appeals_procedure,
           _gap(J,
                "Consumer Appeals Procedure",
                "Va. Code Ann. Sec. 59.1-581(C)",
                "No appeals procedure in place for denied consumer requests.",
                "Controllers must establish and make available an internal process for consumers to appeal the denial of any rights request.",
                MUST_FIX))
    \o append_if(v.include_opt_out_section /\ ~p.opt_out_mechanism_in_place,
           _gap(J,
                "Opt-Out Mechanism for Targeted Advertising / Sale / Profiling",
                "Va. Code Ann. Sec. 59.1-578(A)(5)",
                "No opt-out mechanism in place for applicable processing activities.",
                "The client engages in targeted advertising, sale of personal data, or profiling with significant effects but has not provided a mechanism for consumers to opt out.",
                MUST_FIX))
    \o append_if(v.processes_sensitive_data /\ ~p.sensitive_data_consent_obtained,
           _gap(J,
                "Sensitive Data Opt-In Consent",
                "Va. Code Ann. Sec. 59.1-578(B)",
                "Sensitive data processed without opt-in consent.",
                "Processing of sensitive data requires the consumer's prior, freely given, specific, and unambiguous opt-in consent. No such mechanism is currently in place.",
                MUST_FIX))
    \o append_if(~p.dpa_contracts_in_place,
           _gap(J,
                "Data Processing Agreements with Processors",
                "Va. Code Ann. Sec. 59.1-580",
                "Data Processing Agreements with processors not in place.",
                "Controllers must enter into binding contracts with processors governing the processing of personal data and including all provisions required by Sec. 59.1-580.",
                MUST_FIX))
    \o append_if(v.processes_sensitive_data /\ ~p.pia_assessments_completed,
           _gap(J,
                "Data Protection Impact Assessments (PIAs)",
                "Va. Code Ann. Sec. 59.1-582",
                "Data Protection Impact Assessments not completed for high-risk processing.",
                "Controllers must conduct and document Data Protection Impact Assessments for processing activities that present a heightened risk of harm to consumers.",
                MUST_FIX))
    \o append_if(~p.third_party_contracts_updated,
           _gap(J,
                "Third-Party Contracts Updated for VCDPA",
                "Va. Code Ann. Sec. 59.1-580",
                "Contracts with third parties not reviewed or updated for VCDPA compliance.",
                "Existing contracts with third parties who receive personal data should be reviewed and updated to include VCDPA-required provisions.",
                SHOULD_FIX))

analyse_vcdpa_gaps(matter) ==
    LET p == matter.vcdpa.posture
        v == matter.vcdpa
        J == "VCDPA"
    IN
       append_if(~p.privacy_notice_provided,
           _gap(J,
                "Privacy Notice",
                "Va. Code Ann. Sec. 59.1-578(A)",
                "No VCDPA-compliant privacy notice provided to Virginia consumers.",
                "Controllers must provide consumers with a reasonably accessible privacy notice that includes all disclosures required by Sec. 59.1-578.",
                MUST_FIX))
    \o append_if(~p.rights_procedure_45_days,
           _gap(J,
                "Consumer Rights Response Procedure (45-day)",
                "Va. Code Ann. Sec. 59.1-581(A)",
                "No documented procedure to respond to consumer requests within 45 days.",
                "Controllers must respond to authenticated consumer rights requests within 45 days. An additional 45-day extension is permitted with notice.",
                MUST_FIX))
    \o append_if(~p.appeals_procedure,
           _gap(J,
                "Consumer Appeals Procedure",
                "Va. Code Ann. Sec. 59.1-581(C)",
                "No appeals procedure in place for denied consumer requests.",
                "Controllers must establish and make available an internal process for consumers to appeal the denial of any rights request.",
                MUST_FIX))
    \o append_if(v.include_opt_out_section /\ ~p.opt_out_mechanism_in_place,
           _gap(J,
                "Opt-Out Mechanism for Targeted Advertising / Sale / Profiling",
                "Va. Code Ann. Sec. 59.1-578(A)(5)",
                "No opt-out mechanism in place for applicable processing activities.",
                "The client engages in targeted advertising, sale of personal data, or profiling with significant effects but has not provided a mechanism for consumers to opt out.",
                MUST_FIX))
    \o append_if(v.processes_sensitive_data /\ ~p.sensitive_data_consent_obtained,
           _gap(J,
                "Sensitive Data Opt-In Consent",
                "Va. Code Ann. Sec. 59.1-578(B)",
                "Sensitive data processed without opt-in consent.",
                "Processing of sensitive data requires the consumer's prior, freely given, specific, and unambiguous opt-in consent. No such mechanism is currently in place.",
                MUST_FIX))
    \o append_if(~p.dpa_contracts_in_place,
           _gap(J,
                "Data Processing Agreements with Processors",
                "Va. Code Ann. Sec. 59.1-580",
                "Data Processing Agreements with processors not in place.",
                "Controllers must enter into binding contracts with processors governing the processing of personal data and including all provisions required by Sec. 59.1-580.",
                MUST_FIX))
    \o append_if(v.include_opt_out_section /\ ~p.pia_assessments_completed,
           _gap(J,
                "Data Protection Impact Assessments (PIAs)",
                "Va. Code Ann. Sec. 59.1-582",
                "Data Protection Impact Assessments not completed for high-risk processing.",
                "Controllers must conduct and document Data Protection Impact Assessments for processing activities that present a heightened risk of harm to consumers.",
                MUST_FIX))
    \o append_if(~p.third_party_contracts_updated,
           _gap(J,
                "Third-Party Contracts Updated for VCDPA",
                "Va. Code Ann. Sec. 59.1-580",
                "Contracts with third parties not reviewed or updated for VCDPA compliance.",
                "Existing contracts with third parties who receive personal data should be reviewed and updated to include VCDPA-required provisions.",
                SHOULD_FIX))

(***************************************************************************)
(* gap_analysis_engine.py: the master gap analysis function.  A Python     *)
(* dict is the sequence of its [key, value] items in insertion order.      *)
(***************************************************************************)
\* The keys of a dict, in insertion order.
keys(d) == [i \in 1..Len(d) |-> d[i].key]

\* d[k] for a key the dict holds.
item(d, k) == d[CHOOSE i \in 1..Len(d) : d[i].key = k].value

\* Mutant of setdefault_append: "by_jurisdiction[j] = [f]", which replaces
\* the bucket instead of appending to it.
setdefault_append_replaces(d, k, f) ==
    IF \E i \in 1..Len(d) : d[i].key = k
    THEN [i \in 1..Len(d) |->
             IF d[i].key = k THEN [key |-> k, value |-> <<f>>] ELSE d[i]]
    ELSE Append(d, [key |-> k, value |-> <<f>>])

\* d.setdefault(k, []).append(f): the dict afterwards.
\* Mutant of setdefault_append: "by_jurisdiction.setdefault(j, []).insert(0, f)",
\* which puts the finding at the head of its bucket.
setdefault_append_prepends(d, k, f) ==
    IF \E i \in 1..Len(d) : d[i].key = k
    THEN [i \in 1..Len(d) |->
             IF d[i].key = k
             THEN [key |-> k, value |-> <<f>> \o d[i].value]
             ELSE d[i]]
    ELSE Append(d, [key |-> k, value |-> <<f>>])

setdefault_append(d, k, f) ==
    IF \E i \in 1..Len(d) : d[i].key = k
    THEN [i \in 1..Len(d) |->
             IF d[i].key = k
             THEN [key |-> k, value |-> Append(d[i].value, f)]
             ELSE d[i]]
    ELSE Append(d, [key |-> k, value |-> <<f>>])

\* "for f in all_findings: by_jurisdiction.setdefault(j, []).append(f)"
\* run on the findings fs from the dict d.
RECURSIVE group_by_jurisdiction(_, _)
group_by_jurisdiction(fs, d) ==
    IF fs = <<>> THEN d
    ELSE group_by_jurisdiction(
             Tail(fs), setdefault_append(d, Head(fs).jurisdiction, Head(fs)))

\* "[f for f in all_findings if f['severity'] == severity]"
with_severity(all_findings, severity) ==
    SelectSeq(all_findings, LAMBDA f : f.severity = severity)

\* Mutant of collect_findings: the VCDPA evaluator runs whether or not
\* VCDPA is confirmed.
collect_findings_vcdpa_unguarded(matter) ==
    LET confirmed == true_values(matter.confirmed_jurisdictions)
    IN     (IF "GDPR" \in confirmed THEN analyse_gdpr_gaps(matter) ELSE <<>>)
        \o (IF "CCPA/CPRA" \in confirmed THEN analyse_ccpa_gaps(matter) ELSE <<>>)
        \o (IF "TDPSA" \in confirmed THEN analyse_tdpsa_gaps(matter) ELSE <<>>)
        \o analyse_vcdpa_gaps(matter)

\* "if name in confirmed: all_findings.extend(analyse(matter))", four times.
collect_findings(matter) ==
    LET confirmed == true_values(matter.confirmed_jurisdictions)
    IN     (IF "GDPR" \in confirmed THEN analyse_gdpr_gaps(matter) ELSE <<>>)
        \o (IF "CCPA/CPRA" \in confirmed THEN analyse_ccpa_gaps(matter) ELSE <<>>)
        \o (IF "TDPSA" \in confirmed THEN analyse_tdpsa_gaps(matter) ELSE <<>>)
        \o (IF "VCDPA" \in confirmed THEN analyse_vcdpa_gaps(matter) ELSE <<>>)

\* Mutant of run_gap_analysis: by_jurisdiction starts as
\* "{j: [] for j in confirmed}" over the four statutes in place of "{}".
run_gap_analysis_buckets_preseeded(matter) ==
    LET all_findings == collect_findings(matter)
        by_jurisdiction == group_by_jurisdiction(
                all_findings,
                LET confirmed == SelectSeq(
                        <<"GDPR", "CCPA/CPRA", "TDPSA", "VCDPA">>,
                        LAMBDA j : j \in true_values(matter.confirmed_jurisdictions))
                IN  [i \in 1..Len(confirmed) |->
                        [key |-> confirmed[i], value |-> <<>>]])
        by_severity ==
            << [key |-> MUST_FIX, value |-> with_severity(all_findings, MUST_FIX)],
               [key |-> SHOULD_FIX, value |-> with_severity(all_findings, SHOULD_FIX)],
               [key |-> CONSIDER, value |-> with_severity(all_findings, CONSIDER)] >>
        counts ==
            [total |-> Len(all_findings),
             must_fix |-> Len(item(by_severity, MUST_FIX)),
             should_fix |-> Len(item(by_severity, SHOULD_FIX)),
             consider |-> Len(item(by_severity, CONSIDER))]
    IN  [all |-> all_findings,
         by_jurisdiction |-> by_jurisdiction,
         by_severity |-> by_severity,
         counts |-> counts]

run_gap_analysis(matter) ==
    LET all_findings == collect_findings(matter)
        by_jurisdiction == group_by_jurisdiction(all_findings, <<>>)
        by_severity ==
            << [key |-> MUST_FIX, value |-> with_severity(all_findings, MUST_FIX)],
               [key |-> SHOULD_FIX, value |-> with_severity(all_findings, SHOULD_FIX)],
               [key |-> CONSIDER, value |-> with_severity(all_findings, CONSIDER)] >>
        counts ==
            [total |-> Len(all_findings),
             must_fix |-> Len(item(by_severity, MUST_FIX)),
             should_fix |-> Len(item(by_severity, SHOULD_FIX)),
             consider |-> Len(item(by_severity, CONSIDER))]
    IN  [all |-> all_findings,
         by_jurisdiction |-> by_jurisdiction,
         by_severity |-> by_severity,
         counts |-> counts]

(***************************************************************************)
(* The profiles the interview can hand to the detector.                    *)
(***************************************************************************)
Regions == {EU, UK, "California (US)", "Texas (US)", "Virginia (US)"}

RegionMaps == [Regions -> BOOLEAN]

Revenues == {None, Some(0), Some(CCPA_REVENUE_THRESHOLD - 1),
             Some(CCPA_REVENUE_THRESHOLD), Some(30000000)}

Volumes == {None, Some(0),
            Some(VCDPA_REVENUE_SHARE_THRESHOLD - 1),
            Some(VCDPA_REVENUE_SHARE_THRESHOLD), Some(30000),
            Some(CCPA_CONSUMER_THRESHOLD - 1), Some(CCPA_CONSUMER_THRESHOLD),
            Some(1000000)}

Footprints == {f \in [operating_regions : RegionMaps, consumer_regions : RegionMaps] :
                 Cardinality(true_values(f.operating_regions))
                   + Cardinality(true_values(f.consumer_regions)) <= MaxTrue}

(***************************************************************************)
(* The matters the interview can hand to the gap analysis.                 *)
(***************************************************************************)
\* At most this many controls of a posture record differ from a record
\* with every control present, or from one with every control absent.
MaxDeviations == 2

GdprControls ==
    {"lawful_basis_documented", "ropa_maintained",
     "retention_schedule_documented", "lia_documented",
     "privacy_notice_provided", "cookie_consent_compliant",
     "consent_records_maintained", "rights_procedure_documented",
     "article28_contracts_in_place", "transfer_mechanism_in_place",
     "breach_procedure_documented", "dpia_conducted",
     "privacy_by_design", "staff_training_current"}

CcpaControls ==
    {"notice_at_collection", "policy_updated_12mo",
     "policy_disclosures_complete", "opt_out_mechanism_in_place",
     "gpc_honoured", "spi_limit_mechanism_in_place",
     "rights_procedure_45_days", "service_provider_contracts_compliant",
     "staff_trained", "deletion_verification_in_place"}

TdpsaControls ==
    {"privacy_notice_provided", "rights_procedure_45_days",
     "appeals_procedure", "opt_out_mechanism_in_place", "uoom_supported",
     "sensitive_data_consent_obtained", "dpa_contracts_in_place",
     "dpa_assessments_completed"}

VcdpaControls ==
    {"privacy_notice_provided", "rights_procedure_45_days",
     "appeals_procedure", "opt_out_mechanism_in_place",
     "sensitive_data_consent_obtained", "dpa_contracts_in_place",
     "pia_assessments_completed", "third_party_contracts_updated"}

\* The posture records over Controls within the bound.
Postures(Controls) ==
    {p \in [Controls -> BOOLEAN] :
        LET absent == Cardinality({c \in Controls : ~p[c]})
        IN  absent <= MaxDeviations
            \/ Cardinality(Controls) - absent <= MaxDeviations}

\* The posture record with every control present (b) or absent (~b).
uniform(Controls, b) == [c \in Controls |-> b]

LEGITIMATE_INTERESTS == "Legitimate interests (Article 6(1)(f))"

CONSENT == "Consent (Article 6(1)(a))"

\* The lawful-bases check boxes: each label ticked, unticked or not a key.
LawfulBasesMaps ==
    UNION {[L -> BOOLEAN] : L \in SUBSET {LEGITIMATE_INTERESTS, CONSENT}}

Statutes == {"GDPR", "CCPA/CPRA", "TDPSA", "VCDPA"}

\* The confirmed-jurisdictions check boxes: the four statutes and a name
\* that is none of them.
JurisdictionLabels == Statutes \cup {"Other"}

\* The sections of a matter whose controls are all b and whose
\* conditional triggers are all t.
gdpr_section(b, t) ==
    [posture |-> uniform(GdprControls, b),
     lawful_bases |-> [l \in {LEGITIMATE_INTERESTS, CONSENT} |-> t],
     international_transfers |-> t,
     requires_dpia |-> t]

ccpa_section(b, t) ==
    [posture |-> uniform(CcpaControls, b),
     sells_pi |-> t,
     uses_spi_beyond_primary |-> t]

tdpsa_section(b, t) ==
    [posture |-> uniform(TdpsaControls, b),
     include_opt_out_section |-> t]

vcdpa_section(b, t) ==
    [posture |-> uniform(VcdpaControls, b),
     include_opt_out_section |-> t,
     processes_sensitive_data |-> t]

\* A matter with every control present, no trigger and nothing confirmed.
CompliantMatter ==
    [gdpr |-> gdpr_section(TRUE, FALSE),
     ccpa |-> ccpa_section(TRUE, FALSE),
     tdpsa |-> tdpsa_section(TRUE, FALSE),
     vcdpa |-> vcdpa_section(TRUE, FALSE),
     footprint |-> [processes_sensitive_data |-> FALSE],
     confirmed_jurisdictions |-> [j \in JurisdictionLabels |-> FALSE]]

\* No value: a variable no call in progress has set.
Unset == <<>>

(***************************************************************************)
(* The interview.  op names the function whose call the state holds.       *)
(***************************************************************************)
Init ==
    /\ op = "idle"
    /\ hash_seed \in HashSeeds
    /\ profile = Unset
    /\ results = Unset
    /\ prev_results = Unset
    /\ matter_arg = Unset
    /\ findings = Unset
    /\ analysis = Unset

\* The interview calls detect_applicable_jurisdictions on a profile.
Detect ==
    /\ op = "idle"
    /\ \E f \in Footprints, rev \in Revenues, vol \in Volumes,
          sells \in BOOLEAN, sba \in BOOLEAN :
         /\ profile' = [operating_regions |-> f.operating_regions,
                        consumer_regions |-> f.consumer_regions,
                        annual_revenue |-> rev,
                        consumer_volume |-> vol,
                        sells_data |-> sells,
                        is_sba_small_business |-> sba]
         /\ results' = detect_applicable_jurisdictions(
                           f.operating_regions, f.consumer_regions,
                           rev, vol, sells, sba, hash_seed)
    /\ op' = "detect"
    /\ prev_results' = Unset
    /\ UNCHANGED <<hash_seed, matter_arg, findings, analysis>>

\* The interview evaluates the same call again on its next request, which
\* any interpreter process of the server may serve.
DetectAgain ==
    /\ op = "detect"
    /\ prev_results = Unset
    /\ \E seed \in HashSeeds :
         /\ hash_seed' = seed
         /\ results' = detect_applicable_jurisdictions(
                           profile.operating_regions, profile.consumer_regions,
                           profile.annual_revenue, profile.consumer_volume,
                           profile.sells_data, profile.is_sba_small_business,
                           seed)
    /\ prev_results' = results
    /\ UNCHANGED <<op, profile, matter_arg, findings, analysis>>

\* The interview calls analyse_gdpr_gaps on a matter.
AnalyseGdpr ==
    /\ op = "idle"
    /\ \E p \in Postures(GdprControls), lb \in LawfulBasesMaps,
          it \in BOOLEAN, rd \in BOOLEAN :
         /\ matter_arg' = [CompliantMatter EXCEPT
                             !.gdpr = [posture |-> p,
                                       lawful_bases |-> lb,
                                       international_transfers |-> it,
                                       requires_dpia |-> rd]]
         /\ findings' = analyse_gdpr_gaps(matter_arg')
    /\ op' = "analyse_gdpr_gaps"
    /\ UNCHANGED <<hash_seed, profile, results, prev_results, analysis>>

\* The interview calls analyse_ccpa_gaps on a matter.
AnalyseCcpa ==
    /\ op = "idle"
    /\ \E p \in Postures(CcpaControls), sp \in BOOLEAN, us \in BOOLEAN :
         /\ matter_arg' = [CompliantMatter EXCEPT
                             !.ccpa = [posture |-> p,
                                       sells_pi |-> sp,
                                       uses_spi_beyond_primary |-> us]]
         /\ findings' = analyse_ccpa_gaps(matter_arg')
    /\ op' = "analyse_ccpa_gaps"
    /\ UNCHANGED <<hash_seed, profile, results, prev_results, analysis>>

\* The interview calls analyse_tdpsa_gaps on a matter.
AnalyseTdpsa ==
    /\ op = "idle"
    /\ \E p \in Postures(TdpsaControls), oo \in BOOLEAN, sd \in BOOLEAN :
         /\ matter_arg' = [CompliantMatter EXCEPT
                             !.tdpsa = [posture |-> p,
                                        include_opt_out_section |-> oo],
                             !.footprint = [processes_sensitive_data |-> sd]]
         /\ findings' = analyse_tdpsa_gaps(matter_arg')
    /\ op' = "analyse_tdpsa_gaps"
    /\ UNCHANGED <<hash_seed, profile, results, prev_results, analysis>>

\* The interview calls analyse_vcdpa_gaps on a matter.
AnalyseVcdpa ==
    /\ op = "idle"
    /\ \E p \in Postures(VcdpaControls), oo \in BOOLEAN, sd \in BOOLEAN :
         /\ matter_arg' = [CompliantMatter EXCEPT
                             !.vcdpa = [posture |-> p,
                                        include_opt_out_section |-> oo,
                                        processes_sensitive_data |-> sd]]
         /\ findings' = analyse_vcdpa_gaps(matter_arg')
    /\ op' = "analyse_vcdpa_gaps"
    /\ UNCHANGED <<hash_seed, profile, results, prev_results, analysis>>

\* The interview calls run_gap_analysis on a matter: each statute's
\* controls all present or all absent, its triggers all set or all clear.
RunGapAnalysis ==
    /\ op = "idle"
    /\ \E b \in [Statutes -> BOOLEAN], t \in [Statutes -> BOOLEAN],
          sd \in BOOLEAN, c \in [JurisdictionLabels -> BOOLEAN] :
         /\ matter_arg' = [gdpr |-> gdpr_section(b["GDPR"], t["GDPR"]),
                           ccpa |-> ccpa_section(b["CCPA/CPRA"], t["CCPA/CPRA"]),
                           tdpsa |-> tdpsa_section(b["TDPSA"], t["TDPSA"]),
                           vcdpa |-> vcdpa_section(b["VCDPA"], t["VCDPA"]),
                           footprint |-> [processes_sensitive_data |-> sd],
                           confirmed_jurisdictions |-> c]
         /\ analysis' = run_gap_analysis(matter_arg')
    /\ op' = "run_gap_analysis"
    /\ UNCHANGED <<hash_seed, profile, results, prev_results, findings>>

\* The call returns to the interview.
Return ==
    /\ op # "idle"
    /\ op' = "idle"
    /\ profile' = Unset
    /\ results' = Unset
    /\ prev_results' = Unset
    /\ matter_arg' = Unset
    /\ findings' = Unset
    /\ analysis' = Unset
    /\ UNCHANGED hash_seed

Next ==
    \/ Detect
    \/ DetectAgain
    \/ AnalyseGdpr
    \/ AnalyseCcpa
    \/ AnalyseTdpsa
    \/ AnalyseVcdpa
    \/ RunGapAnalysis
    \/ Return

Spec == Init /\ [][Next]_vars

(***************************************************************************)
(* Properties of run_gap_analysis.                                         *)
(***************************************************************************)
\* The total length of the buckets of a dict.
RECURSIVE SumLen(_)
SumLen(d) == IF d = <<>> THEN 0 ELSE Len(Head(d).value) + SumLen(Tail(d))

\* The buckets of dict d that hold finding f.
BucketsHolding(d, f) ==
    {i \in 1..Len(d) : \E n \in 1..Len(d[i].value) : d[i].value[n] = f}

\* The findings of sequence fs whose jurisdiction is j, in order.
OfJurisdiction(fs, j) == SelectSeq(fs, LAMBDA f : f.jurisdiction = j)

\* The evaluator of each statute.
Evaluate(statute, m) ==
    CASE statute = "GDPR" -> analyse_gdpr_gaps(m)
      [] statute = "CCPA/CPRA" -> analyse_ccpa_gaps(m)
      [] statute = "TDPSA" -> analyse_tdpsa_gaps(m)
      [] statute = "VCDPA" -> analyse_vcdpa_gaps(m)

StatuteOrder == <<"GDPR", "CCPA/CPRA", "TDPSA", "VCDPA">>

\* The place of a statute in the evaluation order.
Rank(j) == CHOOSE i \in 1..4 : StatuteOrder[i] = j

\* C1: in the result of run_gap_analysis, counts.total = len(all) = the
\* summed lengths of the by_jurisdiction buckets = the summed lengths of
\* the by_severity buckets; must_fix, should_fix and consider are the
\* lengths of the three severity buckets; and every element of all is in
\* exactly one jurisdiction bucket and exactly one severity bucket.
C1_AggregationPartitions ==
    op = "run_gap_analysis" =>
        /\ analysis.counts.total = Len(analysis.all)
        /\ SumLen(analysis.by_jurisdiction) = Len(analysis.all)
        /\ SumLen(analysis.by_severity) = Len(analysis.all)
        /\ analysis.counts.must_fix = Len(item(analysis.by_severity, MUST_FIX))
        /\ analysis.counts.should_fix = Len(item(analysis.by_severity, SHOULD_FIX))
        /\ analysis.counts.consider = Len(item(analysis.by_severity, CONSIDER))
        /\ \A n \in 1..Len(analysis.all) :
             /\ Cardinality(BucketsHolding(analysis.by_jurisdiction, analysis.all[n])) = 1
             /\ Cardinality(BucketsHolding(analysis.by_severity, analysis.all[n])) = 1

\* C1 witness: a result with findings of several statutes and of all
\* three severities.
C1_Witness ==
    /\ op = "run_gap_analysis"
    /\ Len(analysis.by_jurisdiction) >= 2
    /\ analysis.counts.must_fix >= 2
    /\ analysis.counts.should_fix >= 2
    /\ analysis.counts.consider >= 1

\* C2: all is the concatenation, in the order GDPR, CCPA/CPRA, TDPSA,
\* VCDPA, of the evaluator outputs of exactly the confirmed statutes: per
\* statute the findings of all are the evaluator's output if the statute
\* is confirmed and none otherwise, statutes follow the fixed order, and a
\* confirmed name outside the four changes nothing in the result.
C2_ConfirmedStatutesOnly ==
    op = "run_gap_analysis" =>
        LET confirmed == true_values(matter_arg.confirmed_jurisdictions)
        IN  /\ \A j \in Statutes :
                 OfJurisdiction(analysis.all, j) =
                     IF j \in confirmed THEN Evaluate(j, matter_arg) ELSE <<>>
            /\ \A n \in 1..Len(analysis.all) :
                 analysis.all[n].jurisdiction \in Statutes \cap confirmed
            /\ \A n \in 1..(Len(analysis.all) - 1) :
                 Rank(analysis.all[n].jurisdiction)
                     <= Rank(analysis.all[n + 1].jurisdiction)
            /\ analysis = run_gap_analysis(
                   [matter_arg EXCEPT !.confirmed_jurisdictions["Other"] = FALSE])

\* C2 witness: a name outside the four is confirmed, one statute with
\* absent controls is confirmed and contributes, another with absent
\* controls is not confirmed and contributes nothing.
C2_Witness ==
    /\ op = "run_gap_analysis"
    /\ matter_arg.confirmed_jurisdictions["Other"]
    /\ matter_arg.confirmed_jurisdictions["CCPA/CPRA"]
    /\ ~matter_arg.confirmed_jurisdictions["GDPR"]
    /\ analyse_gdpr_gaps(matter_arg) # <<>>
    /\ analyse_ccpa_gaps(matter_arg) # <<>>
    /\ analysis.all = analyse_ccpa_gaps(matter_arg)

(***************************************************************************)
(* Properties of the detectors.  results[1..4] are the results for GDPR,   *)
(* CCPA/CPRA, TDPSA and VCDPA of the call the state holds.                 *)
(***************************************************************************)
\* The region is ticked as an operating region or as a consumer region.
Nexus(region) ==
    region \in true_values(profile.operating_regions)
                 \cup true_values(profile.consumer_regions)

\* An optional number is present and at least t.
Meets(x, t) == x # None /\ value(x) >= t

\* C3: for each of the four detectors, if the statute's region is neither
\* an operating region nor a consumer region, the result has applies=False
\* and its reason is the statute's fixed no-nexus text, whatever the
\* revenue, the consumer volume, sells_data and is_sba_small_business.
C3_NoNexusNeverApplies ==
    op = "detect" =>
        /\ (~Nexus(EU) /\ ~Nexus(UK)) =>
              /\ ~results[1].applies
              /\ results[1].reason =
                     <<"No EU/UK establishment or consumer base detected.">>
        /\ ~Nexus("California (US)") =>
              /\ ~results[2].applies
              /\ results[2].reason =
                     <<"No California operations or consumer base detected.">>
        /\ ~Nexus("Texas (US)") =>
              /\ ~results[3].applies
              /\ results[3].reason =
                     <<"No Texas operations or consumer base detected.">>
        /\ ~Nexus("Virginia (US)") =>
              /\ ~results[4].applies
              /\ results[4].reason =
                     <<"No Virginia operations or consumer base detected.">>

\* C3 witness: no region at all is ticked while every threshold is met,
\* data is sold and the client is an SBA small business.
C3_Witness ==
    /\ op = "detect"
    /\ \A r \in Regions : ~Nexus(r)
    /\ Meets(profile.annual_revenue, 25000000)
    /\ Meets(profile.consumer_volume, 1000000)
    /\ profile.sells_data
    /\ profile.is_sba_small_business
    /\ \A i \in 1..4 : ~results[i].applies

\* The reason detect_ccpa_cpra gives when California is an operating
\* region and the given criteria are the only ones supplied.
CcpaSentence(annual_revenue, consumer_volume, sells_data) ==
    detect_ccpa_cpra([r \in Regions |-> r = "California (US)"],
                     [r \in Regions |-> FALSE],
                     annual_revenue, consumer_volume, sells_data).reason

CcpaNoNexusReason == <<"No California operations or consumer base detected.">>

\* C4: with California an operating or consumer region, detect_ccpa_cpra
\* applies iff annual_revenue >= 25,000,000 or consumer_volume >= 100,000
\* or sells_data; when it applies the reason is the reason sentences of
\* all matched criteria, in the order revenue, volume, sale, joined by a
\* space; when no criterion matches it does not apply and gives the
\* "Verify manually" advisory, which is not the no-nexus reason.
C4_CcpaThresholdsAndReasons ==
    (op = "detect" /\ Nexus("California (US)")) =>
        LET rev == Meets(profile.annual_revenue, 25000000)
            vol == Meets(profile.consumer_volume, 100000)
            sale == profile.sells_data
            matched ==
                   (IF rev THEN <<CcpaSentence(profile.annual_revenue, None, FALSE)>>
                    ELSE <<>>)
                \o (IF vol THEN <<CcpaSentence(None, profile.consumer_volume, FALSE)>>
                    ELSE <<>>)
                \o (IF sale THEN <<CcpaSentence(None, None, TRUE)>> ELSE <<>>)
        IN  /\ results[2].applies <=> (rev \/ vol \/ sale)
            /\ results[2].applies => results[2].reason = join(" ", matched)
            /\ ~results[2].applies =>
                  /\ results[2].reason =
                         <<"Client operates in California but does not appear to meet ",
                           "revenue or volume thresholds. Verify manually.">>
                  /\ results[2].reason # CcpaNoNexusReason

\* C4 witness: all three criteria are matched and the reason holds the
\* three sentences.
C4_Witness ==
    /\ op = "detect"
    /\ Nexus("California (US)")
    /\ profile.annual_revenue = Some(30000000)
    /\ profile.consumer_volume = Some(100000)
    /\ profile.sells_data
    /\ results[2].applies
    /\ results[2].reason =
           <<"Annual revenue ($", "3", "0", ",", "0", "0", "0", ",", "0", "0", "0",
             ") meets or exceeds ", "$", "2", "5", ",", "0", "0", "0", ",", "0", "0", "0",
             " threshold.", " ",
             "Consumer volume (", "1", "0", "0", ",", "0", "0", "0",
             ") meets or exceeds ", "1", "0", "0", ",", "0", "0", "0",
             " threshold.", " ",
             "Client derives revenue from selling personal information.">>

\* C5: with Texas an operating or consumer region, detect_tdpsa does not
\* apply to an SBA small business whatever the consumer volume; otherwise
\* it applies iff consumer_volume >= 100,000, and gives the advisory
\* reason when it does not.
C5_TdpsaExemptionOverridesVolume ==
    (op = "detect" /\ Nexus("Texas (US)")) =>
        /\ profile.is_sba_small_business => ~results[3].applies
        /\ ~profile.is_sba_small_business =>
              /\ results[3].applies <=> Meets(profile.consumer_volume, 100000)
              /\ ~results[3].applies =>
                     results[3].reason =
                         <<"Client operates in Texas but consumer volume does not ",
                           "appear to meet the 100,000 threshold. Verify manually.">>

\* C5 witness: Texas nexus, SBA small business, volume 1,000,000: TDPSA
\* does not apply.
C5_Witness ==
    /\ op = "detect"
    /\ Nexus("Texas (US)")
    /\ profile.is_sba_small_business
    /\ profile.consumer_volume = Some(1000000)
    /\ ~results[3].applies

\* C6: with Virginia an operating or consumer region, detect_vcdpa applies
\* iff consumer_volume >= 100,000 or (consumer_volume >= 25,000 and
\* sells_data); the result does not depend on annual_revenue; volume
\* 30,000 applies through the second branch with sells_data and does not
\* apply without it.
C6_VcdpaPredicate ==
    (op = "detect" /\ Nexus("Virginia (US)")) =>
        /\ results[4].applies <=>
               \/ Meets(profile.consumer_volume, 100000)
               \/ (Meets(profile.consumer_volume, 25000) /\ profile.sells_data)
        /\ \A revenue \in Revenues :
               detect_applicable_jurisdictions(
                   profile.operating_regions, profile.consumer_regions,
                   revenue, profile.consumer_volume, profile.sells_data,
                   profile.is_sba_small_business, hash_seed)[4] = results[4]
        /\ profile.consumer_volume = Some(30000) =>
               IF profile.sells_data
               THEN /\ results[4].applies
                    /\ results[4].reason =
                           <<"Client processes data of ", "3", "0", ",", "0", "0", "0",
                             " Virginia consumers ",
                             "and derives revenue from sale of personal data.">>
               ELSE ~results[4].applies

\* C6 witness: Virginia nexus, volume 30,000 and sale of data: VCDPA
\* applies.
C6_Witness ==
    /\ op = "detect"
    /\ Nexus("Virginia (US)")
    /\ profile.consumer_volume = Some(30000)
    /\ profile.sells_data
    /\ results[4].applies

\* The regions a GDPR reason names: its tokens between the opening
\* sentence and the full stop, separators left out.
NamedRegions(reason) == {reason[i] : i \in 2..(Len(reason) - 1)} \ {", "}

\* C7: detect_gdpr applies iff the operating regions or the consumer
\* regions meet {EU, UK}; the reason names exactly the matched regions,
\* each once; and when both tests match the reason is the establishment
\* reason, naming the matched operating regions.
C7_GdprEstablishmentFirst ==
    op = "detect" =>
        LET established == {EU, UK} \cap true_values(profile.operating_regions)
            targeted == {EU, UK} \cap true_values(profile.consumer_regions)
            matched == IF established # {} THEN established ELSE targeted
        IN  /\ results[1].applies <=> (established # {} \/ targeted # {})
            /\ results[1].applies =>
                  /\ results[1].reason[1] =
                         IF established # {}
                         THEN "Client has an establishment in "
                         ELSE "Client processes personal data of residents in "
                  /\ NamedRegions(results[1].reason) = matched
                  /\ Len(results[1].reason) = 2 * Cardinality(matched) + 1
                  /\ results[1].reason[Len(results[1].reason)] = "."

\* C7 witness: both tests match on different regions and the reason is the
\* establishment reason.
C7_Witness ==
    /\ op = "detect"
    /\ true_values(profile.operating_regions) = {UK}
    /\ true_values(profile.consumer_regions) = {EU}
    /\ results[1].reason = <<"Client has an establishment in ", UK, ".">>

\* C8: two calls of detect_applicable_jurisdictions with identical inputs
\* return identical sequences, reason text included.
C8_RepeatedCallSameResult ==
    (op = "detect" /\ prev_results # Unset) => results = prev_results

GdprCompliant(m) ==
    /\ \A c \in GdprControls : m.gdpr.posture[c]
    /\ ~get(m.gdpr.lawful_bases, LEGITIMATE_INTERESTS, FALSE)
    /\ ~get(m.gdpr.lawful_bases, CONSENT, FALSE)
    /\ ~m.gdpr.international_transfers
    /\ ~m.gdpr.requires_dpia

CcpaCompliant(m) ==
    /\ \A c \in CcpaControls : m.ccpa.posture[c]
    /\ ~m.ccpa.sells_pi
    /\ ~m.ccpa.uses_spi_beyond_primary

TdpsaCompliant(m) ==
    /\ \A c \in TdpsaControls : m.tdpsa.posture[c]
    /\ ~m.tdpsa.include_opt_out_section
    /\ ~m.footprint.processes_sensitive_data

VcdpaCompliant(m) ==
    /\ \A c \in VcdpaControls : m.vcdpa.posture[c]
    /\ ~m.vcdpa.include_opt_out_section
    /\ ~m.vcdpa.processes_sensitive_data

\* C10: each of the four evaluators returns no finding for a posture
\* record with every control present and every conditional trigger false,
\* and run_gap_analysis on such a matter with all four statutes confirmed
\* returns counts.total = 0.
C10_CompliantPostureNoFindings ==
    /\ (op = "analyse_gdpr_gaps" /\ GdprCompliant(matter_arg)) => findings = <<>>
    /\ (op = "analyse_ccpa_gaps" /\ CcpaCompliant(matter_arg)) => findings = <<>>
    /\ (op = "analyse_tdpsa_gaps" /\ TdpsaCompliant(matter_arg)) => findings = <<>>
    /\ (op = "analyse_vcdpa_gaps" /\ VcdpaCompliant(matter_arg)) => findings = <<>>
    /\ (/\ op = "run_gap_analysis"
        /\ GdprCompliant(matter_arg) /\ CcpaCompliant(matter_arg)
        /\ TdpsaCompliant(matter_arg) /\ VcdpaCompliant(matter_arg)
        /\ Statutes \subseteq true_values(matter_arg.confirmed_jurisdictions))
       => (analysis.counts.total = 0 /\ analysis.all = <<>>)

\* C10 witness: run_gap_analysis has run on a fully compliant matter with
\* the four statutes confirmed.
C10_Witness ==
    /\ op = "run_gap_analysis"
    /\ GdprCompliant(matter_arg) /\ CcpaCompliant(matter_arg)
    /\ TdpsaCompliant(matter_arg) /\ VcdpaCompliant(matter_arg)
    /\ true_values(matter_arg.confirmed_jurisdictions) = Statutes
    /\ analysis.counts.total = 0

(***************************************************************************)
(* Properties of the single rules of the checklists.                       *)
(***************************************************************************)
\* The controls whose rule reads nothing but the control.
GdprUnconditional ==
    GdprControls \ {"lia_documented", "consent_records_maintained",
                    "transfer_mechanism_in_place", "dpia_conducted"}

CcpaUnconditional ==
    CcpaControls \ {"opt_out_mechanism_in_place",
                    "spi_limit_mechanism_in_place"}

TdpsaUnconditional ==
    TdpsaControls \ {"opt_out_mechanism_in_place",
                     "sensitive_data_consent_obtained",
                     "dpa_assessments_completed"}

VcdpaUnconditional ==
    VcdpaControls \ {"opt_out_mechanism_in_place",
                     "sensitive_data_consent_obtained",
                     "pia_assessments_completed"}

\* The statute an evaluator call is about, its section of the matter and
\* its unconditional controls.
EvaluatorCalls ==
    {"analyse_gdpr_gaps", "analyse_ccpa_gaps",
     "analyse_tdpsa_gaps", "analyse_vcdpa_gaps"}

StatuteOf(call) ==
    CASE call = "analyse_gdpr_gaps" -> "GDPR"
      [] call = "analyse_ccpa_gaps" -> "CCPA/CPRA"
      [] call = "analyse_tdpsa_gaps" -> "TDPSA"
      [] call = "analyse_vcdpa_gaps" -> "VCDPA"

SectionOf(call) ==
    CASE call = "analyse_gdpr_gaps" -> "gdpr"
      [] call = "analyse_ccpa_gaps" -> "ccpa"
      [] call = "analyse_tdpsa_gaps" -> "tdpsa"
      [] call = "analyse_vcdpa_gaps" -> "vcdpa"

UnconditionalOf(call) ==
    CASE call = "analyse_gdpr_gaps" -> GdprUnconditional
      [] call = "analyse_ccpa_gaps" -> CcpaUnconditional
      [] call = "analyse_tdpsa_gaps" -> TdpsaUnconditional
      [] call = "analyse_vcdpa_gaps" -> VcdpaUnconditional

\* Sequence s without its i-th element.
RemoveAt(s, i) == SubSeq(s, 1, i - 1) \o SubSeq(s, i + 1, Len(s))

\* The matter with control c of the section flipped, all else unchanged.
Flipped(m, section, c) ==
    [m EXCEPT ![section].posture[c] = ~m[section].posture[c]]

\* The posture with every control present but c.
AllBut(Controls, c) == [uniform(Controls, TRUE) EXCEPT ![c] = FALSE]

\* C11: in each evaluator, for every unconditional control, the output
\* with the control absent is the output with the control present plus
\* exactly one finding, inserted at one position, every other finding and
\* the order unchanged, and that finding does not occur with the control
\* present.  With lawful_basis_documented the only absent control,
\* analyse_gdpr_gaps returns exactly one finding, "Lawful Basis
\* Documentation" at MUST_FIX, and none once the control is flipped.
C11_RulesIndependent ==
    /\ op \in EvaluatorCalls =>
         \A c \in UnconditionalOf(op) :
            LET other == Evaluate(StatuteOf(op),
                                  Flipped(matter_arg, SectionOf(op), c))
                is_present == matter_arg[SectionOf(op)].posture[c]
                absent == IF is_present THEN other ELSE findings
                present == IF is_present THEN findings ELSE other
            IN  \E i \in 1..Len(absent) :
                   /\ RemoveAt(absent, i) = present
                   /\ \A n \in 1..Len(present) : present[n] # absent[i]
    /\ (/\ op = "analyse_gdpr_gaps"
        /\ matter_arg.gdpr.posture
             = AllBut(GdprControls, "lawful_basis_documented"))
       => /\ Len(findings) = 1
          /\ findings[1].requirement = "Lawful Basis Documentation"
          /\ findings[1].severity = MUST_FIX
          /\ analyse_gdpr_gaps(
                 Flipped(matter_arg, "gdpr", "lawful_basis_documented")) = <<>>

\* C11 witness: analyse_gdpr_gaps has run on a posture whose only absent
\* control is lawful_basis_documented and returned its one finding.
C11_Witness ==
    /\ op = "analyse_gdpr_gaps"
    /\ matter_arg.gdpr.posture = AllBut(GdprControls, "lawful_basis_documented")
    /\ Len(findings) = 1
    /\ findings[1].requirement = "Lawful Basis Documentation"

\* analyse_gdpr_gaps was called with every control absent and every
\* trigger true.
GdprAllAbsentAllTriggers ==
    /\ op = "analyse_gdpr_gaps"
    /\ matter_arg.gdpr.posture = uniform(GdprControls, FALSE)
    /\ get(matter_arg.gdpr.lawful_bases, LEGITIMATE_INTERESTS, FALSE)
    /\ get(matter_arg.gdpr.lawful_bases, CONSENT, FALSE)
    /\ matter_arg.gdpr.international_transfers
    /\ matter_arg.gdpr.requires_dpia

\* C12 as stated: analyse_gdpr_gaps returns at most 12 findings for any
\* input, and exactly 12 when every control is absent and all four
\* triggers are true.
C12_TwelveRules ==
    op = "analyse_gdpr_gaps" =>
        /\ Len(findings) <= 12
        /\ GdprAllAbsentAllTriggers => Len(findings) = 12

\* C12: the GDPR checklist consists of 14 rules: analyse_gdpr_gaps returns
\* at most 14 findings for any input, and exactly 14, no two of them for
\* the same requirement, when every control is absent and all four
\* triggers are true.
C12_FourteenRules ==
    op = "analyse_gdpr_gaps" =>
        /\ Len(findings) <= 14
        /\ GdprAllAbsentAllTriggers =>
             /\ Len(findings) = 14
             /\ Cardinality({findings[i].requirement : i \in 1..14}) = 14

\* C12 witness: analyse_gdpr_gaps has returned 14 findings for a posture
\* with every control absent and every trigger true.
C12_Witness == GdprAllAbsentAllTriggers /\ Len(findings) = 14

\* The positions of the returned findings with the given requirement.
Found(requirement) ==
    {i \in 1..Len(findings) : findings[i].requirement = requirement}

\* The rule of the given requirement and severity added its finding, once,
\* iff cond.
RuleFires(requirement, severity, cond) ==
    /\ Cardinality(Found(requirement)) = IF cond THEN 1 ELSE 0
    /\ \A i \in Found(requirement) : findings[i].severity = severity

\* 1 if b, else 0.
Count(b) == IF b THEN 1 ELSE 0

\* analyse_vcdpa_gaps was called with every control absent and both flags
\* true.
VcdpaAllAbsentBothFlags ==
    /\ op = "analyse_vcdpa_gaps"
    /\ matter_arg.vcdpa.posture = uniform(VcdpaControls, FALSE)
    /\ matter_arg.vcdpa.include_opt_out_section
    /\ matter_arg.vcdpa.processes_sensitive_data

\* C13 as stated: analyse_vcdpa_gaps returns at most 7 findings for any
\* input, and exactly 7 when every control is absent and both flags are
\* true.
C13_SevenRules ==
    op = "analyse_vcdpa_gaps" =>
        /\ Len(findings) <= 7
        /\ VcdpaAllAbsentBothFlags => Len(findings) = 7

\* C13: the VCDPA checklist consists of 8 rules.  Exactly one is
\* SHOULD_FIX (third-party contracts) and the other seven are MUST_FIX;
\* exactly two are conditional on include_opt_out_section (opt-out
\* mechanism, impact assessments) and one on processes_sensitive_data
\* (sensitive-data consent); the other five fire iff their control is
\* absent.  At most 8 findings are returned, and exactly 8 when every
\* control is absent and both flags are true.
C13_EightRules ==
    op = "analyse_vcdpa_gaps" =>
        LET p == matter_arg.vcdpa.posture
            v == matter_arg.vcdpa
        IN  /\ Len(findings) <= 8
            /\ VcdpaAllAbsentBothFlags => Len(findings) = 8
            /\ RuleFires("Third-Party Contracts Updated for VCDPA", SHOULD_FIX,
                         ~p.third_party_contracts_updated)
            /\ \A i \in 1..Len(findings) :
                  IF findings[i].requirement
                       = "Third-Party Contracts Updated for VCDPA"
                  THEN findings[i].severity = SHOULD_FIX
                  ELSE findings[i].severity = MUST_FIX
            /\ RuleFires("Opt-Out Mechanism for Targeted Advertising / Sale / Profiling",
                         MUST_FIX,
                         v.include_opt_out_section
                           /\ ~p.opt_out_mechanism_in_place)
            /\ RuleFires("Data Protection Impact Assessments (PIAs)", MUST_FIX,
                         v.include_opt_out_section
                           /\ ~p.pia_assessments_completed)
            /\ RuleFires("Sensitive Data Opt-In Consent", MUST_FIX,
                         v.processes_sensitive_data
                           /\ ~p.sensitive_data_consent_obtained)
            /\ Len(findings)
                 = Cardinality({c \in VcdpaUnconditional : ~p[c]})
                   + Count(v.include_opt_out_section
                             /\ ~p.opt_out_mechanism_in_place)
                   + Count(v.include_opt_out_section
                             /\ ~p.pia_assessments_completed)
                   + Count(v.processes_sensitive_data
                             /\ ~p.sensitive_data_consent_obtained)

\* C13 witness: analyse_vcdpa_gaps has returned 8 findings, the last one
\* SHOULD_FIX, for a posture with every control absent and both flags true.
C13_Witness ==
    /\ VcdpaAllAbsentBothFlags
    /\ Len(findings) = 8
    /\ findings[8].severity = SHOULD_FIX

\* C14: analyse_gdpr_gaps returns the LIA finding (CONSIDER) iff the
\* legitimate-interests basis is selected and lia_documented is false, the
\* consent-records finding (MUST_FIX) iff the consent basis is selected and
\* consent_records_maintained is false, the transfer-mechanism finding
\* (MUST_FIX) iff international_transfers is true and the mechanism is
\* absent, and the DPIA finding (MUST_FIX) iff requires_dpia is true and
\* dpia_conducted is false; a false trigger yields no such finding whatever
\* the control.
C14_GdprConditionalRules ==
    op = "analyse_gdpr_gaps" =>
        LET p == matter_arg.gdpr.posture
            g == matter_arg.gdpr
            legitimate_interests ==
                LEGITIMATE_INTERESTS \in true_values(g.lawful_bases)
            consent == CONSENT \in true_values(g.lawful_bases)
        IN  /\ RuleFires("Legitimate Interests Assessment (LIA)", CONSIDER,
                         legitimate_interests /\ ~p.lia_documented)
            /\ RuleFires("Consent Records", MUST_FIX,
                         consent /\ ~p.consent_records_maintained)
            /\ RuleFires("International Transfer Mechanism", MUST_FIX,
                         g.international_transfers
                           /\ ~p.transfer_mechanism_in_place)
            /\ RuleFires("Data Protection Impact Assessment (DPIA)", MUST_FIX,
                         g.requires_dpia /\ ~p.dpia_conducted)

\* C14 witness: analyse_gdpr_gaps has run with the legitimate-interests
\* basis selected and no LIA, and with no international transfer and no
\* transfer mechanism; it returned the LIA finding and no transfer finding.
C14_Witness ==
    /\ op = "analyse_gdpr_gaps"
    /\ LEGITIMATE_INTERESTS \in true_values(matter_arg.gdpr.lawful_bases)
    /\ ~matter_arg.gdpr.posture.lia_documented
    /\ ~matter_arg.gdpr.international_transfers
    /\ ~matter_arg.gdpr.posture.transfer_mechanism_in_place
    /\ \E i \in Found("Legitimate Interests Assessment (LIA)") :
          findings[i].severity = CONSIDER
    /\ Found("International Transfer Mechanism") = {}

\* The requirement of the finding of each unconditional CCPA/CPRA rule.
CcpaRequirement ==
    [c \in CcpaUnconditional |->
        CASE c = "notice_at_collection" -> "Notice at Collection"
          [] c = "policy_updated_12mo" -> "Privacy Policy Currency"
          [] c = "policy_disclosures_complete"
               -> "Required Privacy Policy Disclosures"
          [] c = "gpc_honoured" -> "Global Privacy Control (GPC) Signal"
          [] c = "rights_procedure_45_days"
               -> "Consumer Rights Request Procedure (45-day)"
          [] c = "service_provider_contracts_compliant"
               -> "Service Provider and Contractor Contracts"
          [] c = "staff_trained" -> "Staff Training on Consumer Rights"
          [] c = "deletion_verification_in_place"
               -> "Two-Step Verification for Deletion Requests"]

\* The two SHOULD_FIX controls of the CCPA/CPRA checklist.
CcpaShouldFix == {"staff_trained", "deletion_verification_in_place"}

\* C15: the CCPA/CPRA checklist consists of 10 rules.  Exactly two are
\* SHOULD_FIX (staff training, two-step deletion verification) and eight
\* are MUST_FIX.  The opt-out finding is produced iff sells_pi is true and
\* the opt-out mechanism is absent, the SPI-limit finding iff
\* uses_spi_beyond_primary is true and the limit mechanism is absent; each
\* of the other eight rules fires iff its control is absent.
C15_CcpaChecklist ==
    op = "analyse_ccpa_gaps" =>
        LET p == matter_arg.ccpa.posture
            c == matter_arg.ccpa
            opt_out == c.sells_pi /\ ~p.opt_out_mechanism_in_place
            spi_limit == c.uses_spi_beyond_primary
                           /\ ~p.spi_limit_mechanism_in_place
        IN  /\ RuleFires("\"Do Not Sell or Share\" Opt-Out Mechanism",
                         MUST_FIX, opt_out)
            /\ RuleFires("\"Limit Use of Sensitive Personal Information\" Mechanism",
                         MUST_FIX, spi_limit)
            /\ \A u \in CcpaUnconditional :
                  RuleFires(CcpaRequirement[u],
                            IF u \in CcpaShouldFix THEN SHOULD_FIX ELSE MUST_FIX,
                            ~p[u])
            /\ Len(findings)
                 = Cardinality({u \in CcpaUnconditional : ~p[u]})
                   + Count(opt_out) + Count(spi_limit)
            /\ Len(findings) <= 10
            /\ (p = uniform(CcpaControls, FALSE)
                  /\ c.sells_pi /\ c.uses_spi_beyond_primary)
               => /\ Len(findings) = 10
                  /\ Len(with_severity(findings, SHOULD_FIX)) = 2
                  /\ Len(with_severity(findings, MUST_FIX)) = 8

\* C15 witness: analyse_ccpa_gaps has returned 10 findings, 2 of them
\* SHOULD_FIX, for a posture with every control absent and both flags true.
C15_Witness ==
    /\ op = "analyse_ccpa_gaps"
    /\ matter_arg.ccpa.posture = uniform(CcpaControls, FALSE)
    /\ matter_arg.ccpa.sells_pi
    /\ matter_arg.ccpa.uses_spi_beyond_primary
    /\ Len(findings) = 10
    /\ Len(with_severity(findings, SHOULD_FIX)) = 2

\* The requirement of the finding of each unconditional TDPSA rule.
TdpsaRequirement ==
    [c \in TdpsaUnconditional |->
        CASE c = "privacy_notice_provided" -> "Privacy Notice"
          [] c = "rights_procedure_45_days"
               -> "Consumer Rights Response Procedure (45-day)"
          [] c = "appeals_procedure" -> "Consumer Appeals Procedure"
          [] c = "uoom_supported" -> "Universal Opt-Out Mechanism (UOOM)"
          [] c = "dpa_contracts_in_place"
               -> "Data Processing Agreements with Processors"]

\* C16: the TDPSA checklist consists of 8 rules, all MUST_FIX.  The
\* opt-out-mechanism and data-protection-assessment findings are produced
\* iff include_opt_out_section is true and the control is absent, the
\* sensitive-data-consent finding iff processes_sensitive_data is true and
\* the consent control is absent; each of the other five rules fires iff
\* its control is absent.
C16_TdpsaChecklist ==
    op = "analyse_tdpsa_gaps" =>
        LET p == matter_arg.tdpsa.posture
            t == matter_arg.tdpsa
            sensitive == matter_arg.footprint.processes_sensitive_data
            opt_out == t.include_opt_out_section
                         /\ ~p.opt_out_mechanism_in_place
            assessments == t.include_opt_out_section
                             /\ ~p.dpa_assessments_completed
            consent == sensitive /\ ~p.sensitive_data_consent_obtained
        IN  /\ RuleFires("Opt-Out Mechanism for Targeted Advertising / Sale / Profiling",
                         MUST_FIX, opt_out)
            /\ RuleFires("Data Protection Assessments", MUST_FIX, assessments)
            /\ RuleFires("Sensitive Data Opt-In Consent", MUST_FIX, consent)
            /\ \A u \in TdpsaUnconditional :
                  RuleFires(TdpsaRequirement[u], MUST_FIX, ~p[u])
            /\ \A i \in 1..Len(findings) : findings[i].severity = MUST_FIX
            /\ Len(findings)
                 = Cardinality({u \in TdpsaUnconditional : ~p[u]})
                   + Count(opt_out) + Count(assessments) + Count(consent)
            /\ Len(findings) <= 8
            /\ (p = uniform(TdpsaControls, FALSE)
                  /\ t.include_opt_out_section /\ sensitive)
               => Len(findings) = 8

\* C16 witness: analyse_tdpsa_gaps has run with every control absent, the
\* opt-out section not included and sensitive data processed: it returned
\* the five unconditional findings and the sensitive-data consent finding.
C16_Witness ==
    /\ op = "analyse_tdpsa_gaps"
    /\ matter_arg.tdpsa.posture = uniform(TdpsaControls, FALSE)
    /\ ~matter_arg.tdpsa.include_opt_out_section
    /\ matter_arg.footprint.processes_sensitive_data
    /\ Len(findings) = 6
    /\ Found("Sensitive Data Opt-In Consent") # {}
    /\ Found("Data Protection Assessments") = {}

(***************************************************************************)
(* Missing numeric fields in the detectors.                                *)
(***************************************************************************)
\* An optional number is missing or zero.
Missing(x) == x = None \/ x = Some(0)

\* A detector returned a complete result, not an error.
Complete(r) ==
    /\ DOMAIN r = {"name", "applies", "reason"}
    /\ r.applies \in BOOLEAN
    /\ r.reason # <<>>

CcpaAdvisory ==
    <<"Client operates in California but does not appear to meet ",
      "revenue or volume thresholds. Verify manually.">>

TdpsaAdvisory ==
    <<"Client operates in Texas but consumer volume does not ",
      "appear to meet the 100,000 threshold. Verify manually.">>

TdpsaExemption ==
    <<"Client qualifies as SBA small business and is ",
      "exempt from TDPSA. Verify classification.">>

VcdpaAdvisory ==
    <<"Client operates in Virginia but does not appear to meet ",
      "consumer volume thresholds. Verify manually.">>

\* C17 as stated: with the statute's region nexus present, no sale of data
\* and both numeric fields missing, detect_ccpa_cpra, detect_tdpsa and
\* detect_vcdpa each return applies=False and the advisory reason.
C17_MissingNumbersAdvisory ==
    (/\ op = "detect"
     /\ profile.annual_revenue = None
     /\ profile.consumer_volume = None
     /\ ~profile.sells_data)
    => /\ \A i \in 1..4 : Complete(results[i])
       /\ Nexus("California (US)") =>
             ~results[2].applies /\ results[2].reason = CcpaAdvisory
       /\ Nexus("Texas (US)") =>
             ~results[3].applies /\ results[3].reason = TdpsaAdvisory
       /\ Nexus("Virginia (US)") =>
             ~results[4].applies /\ results[4].reason = VcdpaAdvisory

\* C17: every detector returns a complete result whatever the numeric
\* fields, and a missing or zero annual_revenue or consumer_volume meets
\* no threshold: with the statute's region nexus present, no sale of data
\* and both numeric fields missing or zero, detect_ccpa_cpra and
\* detect_vcdpa return applies=False and the advisory reason, and so does
\* detect_tdpsa unless the client is an SBA small business, for which it
\* returns applies=False and the exemption reason.
C17_MissingNumbersMeetNoThreshold ==
    op = "detect" =>
        /\ \A i \in 1..4 : Complete(results[i])
        /\ Missing(profile.consumer_volume) =>
              ~results[3].applies /\ ~results[4].applies
        /\ (Missing(profile.annual_revenue)
              /\ Missing(profile.consumer_volume))
           => (results[2].applies
                 <=> Nexus("California (US)") /\ profile.sells_data)
        /\ (/\ Missing(profile.annual_revenue)
            /\ Missing(profile.consumer_volume)
            /\ ~profile.sells_data)
           => /\ Nexus("California (US)") =>
                    ~results[2].applies /\ results[2].reason = CcpaAdvisory
              /\ Nexus("Texas (US)") =>
                    /\ ~results[3].applies
                    /\ results[3].reason =
                           IF profile.is_sba_small_business
                           THEN TdpsaExemption
                           ELSE TdpsaAdvisory
              /\ Nexus("Virginia (US)") =>
                    ~results[4].applies /\ results[4].reason = VcdpaAdvisory

\* C17 witness: the detectors have run on a client with California, Texas
\* and Virginia nexus, no sale, no SBA exemption and both numeric fields
\* missing, and each returned applies=False with its advisory reason.
C17_Witness ==
    /\ op = "detect"
    /\ Nexus("California (US)") /\ Nexus("Texas (US)")
    /\ Nexus("Virginia (US)")
    /\ profile.annual_revenue = None
    /\ profile.consumer_volume = None
    /\ ~profile.sells_data
    /\ ~profile.is_sba_small_business
    /\ ~results[2].applies /\ results[2].reason = CcpaAdvisory
    /\ ~results[3].applies /\ results[3].reason = TdpsaAdvisory
    /\ ~results[4].applies /\ results[4].reason = VcdpaAdvisory

(***************************************************************************)
(* Order and keys of the groupings of run_gap_analysis.                    *)
(***************************************************************************)
\* Sequence s is t with some elements left out, the order kept.
RECURSIVE IsSubsequence(_, _)
IsSubsequence(s, t) ==
    IF s = <<>> THEN TRUE
    ELSE IF t = <<>> THEN FALSE
    ELSE IF Head(s) = Head(t) THEN IsSubsequence(Tail(s), Tail(t))
    ELSE IsSubsequence(s, Tail(t))

\* The positions of the findings of all with the given jurisdiction, or
\* severity.
PositionsOfJurisdiction(j) ==
    {n \in 1..Len(analysis.all) : analysis.all[n].jurisdiction = j}

PositionsOfSeverity(s) ==
    {n \in 1..Len(analysis.all) : analysis.all[n].severity = s}

\* The least element of a non-empty set of positions.
First(S) == CHOOSE n \in S : \A k \in S : n <= k

\* C18: in the result of run_gap_analysis every by_jurisdiction bucket and
\* every by_severity bucket is a subsequence of all and holds every finding
\* of all with its key, once per occurrence; the by_jurisdiction keys are
\* the jurisdictions of all in first-seen order, a subsequence of GDPR,
\* CCPA/CPRA, TDPSA, VCDPA; the by_severity keys are MUST_FIX, SHOULD_FIX,
\* CONSIDER in that order.
C18_AggregationPreservesOrder ==
    op = "run_gap_analysis" =>
        LET bj == analysis.by_jurisdiction
            bs == analysis.by_severity
        IN  /\ \A i \in 1..Len(bj) :
                  /\ IsSubsequence(bj[i].value, analysis.all)
                  /\ \A n \in 1..Len(bj[i].value) :
                        bj[i].value[n].jurisdiction = bj[i].key
                  /\ Len(bj[i].value)
                       = Cardinality(PositionsOfJurisdiction(bj[i].key))
            /\ \A i \in 1..Len(bs) :
                  /\ IsSubsequence(bs[i].value, analysis.all)
                  /\ \A n \in 1..Len(bs[i].value) :
                        bs[i].value[n].severity = bs[i].key
                  /\ Len(bs[i].value)
                       = Cardinality(PositionsOfSeverity(bs[i].key))
            /\ \A n \in 1..Len(analysis.all) :
                  \E i \in 1..Len(bj) : bj[i].key = analysis.all[n].jurisdiction
            /\ \A i \in 1..Len(bj) : PositionsOfJurisdiction(bj[i].key) # {}
            /\ \A i, k \in 1..Len(bj) :
                  i < k => First(PositionsOfJurisdiction(bj[i].key))
                             < First(PositionsOfJurisdiction(bj[k].key))
            /\ IsSubsequence(keys(bj), StatuteOrder)
            /\ keys(bs) = <<MUST_FIX, SHOULD_FIX, CONSIDER>>

\* C18 witness: a result whose by_jurisdiction keys are GDPR, TDPSA and
\* VCDPA, each bucket with several findings, and whose SHOULD_FIX bucket
\* holds findings of two statutes.
C18_Witness ==
    /\ op = "run_gap_analysis"
    /\ keys(analysis.by_jurisdiction) = <<"GDPR", "TDPSA", "VCDPA">>
    /\ \A i \in 1..3 : Len(analysis.by_jurisdiction[i].value) >= 2
    /\ \E n, k \in 1..Len(item(analysis.by_severity, SHOULD_FIX)) :
          item(analysis.by_severity, SHOULD_FIX)[n].jurisdiction
            # item(analysis.by_severity, SHOULD_FIX)[k].jurisdiction

\* The keys a dict holds.
KeySet(d) == {d[i].key : i \in 1..Len(d)}

\* C19: in the result of run_gap_analysis, by_jurisdiction has a key for a
\* statute iff the statute is confirmed and its evaluator returns at least
\* one finding for the matter, it has no other key, no key twice and no
\* empty bucket; by_severity has exactly the three severity keys, with an
\* empty bucket where no finding of all has that severity.
C19_KeysOfTheGroupings ==
    op = "run_gap_analysis" =>
        LET bj == analysis.by_jurisdiction
            bs == analysis.by_severity
            confirmed == true_values(matter_arg.confirmed_jurisdictions)
        IN  /\ \A j \in Statutes :
                  j \in KeySet(bj)
                    <=> (j \in confirmed /\ Evaluate(j, matter_arg) # <<>>)
            /\ KeySet(bj) \subseteq Statutes
            /\ Cardinality(KeySet(bj)) = Len(bj)
            /\ \A i \in 1..Len(bj) : bj[i].value # <<>>
            /\ Len(bs) = 3
            /\ KeySet(bs) = {MUST_FIX, SHOULD_FIX, CONSIDER}
            /\ \A i \in 1..Len(bs) :
                  PositionsOfSeverity(bs[i].key) = {} => bs[i].value = <<>>

\* C19 witness: GDPR and CCPA/CPRA are confirmed, the GDPR posture is fully
\* compliant and the CCPA/CPRA one is not: by_jurisdiction has the one key
\* CCPA/CPRA, and by_severity has its three keys, the CONSIDER bucket empty.
C19_Witness ==
    /\ op = "run_gap_analysis"
    /\ {"GDPR", "CCPA/CPRA"} \subseteq true_values(matter_arg.confirmed_jurisdictions)
    /\ GdprCompliant(matter_arg)
    /\ keys(analysis.by_jurisdiction) = <<"CCPA/CPRA">>
    /\ Len(analysis.by_severity) = 3
    /\ item(analysis.by_severity, CONSIDER) = <<>>
    /\ item(analysis.by_severity, MUST_FIX) # <<>>

====
